---- MODULE Spec2Model ----
(***************************************************************************)
(* A model of the Extended SDK's InfoClient (clients/info.ts) and of its   *)
(* HttpTransport (transports/http), used to check the statements of the    *)
(* specification about argument validation, envelope unwrapping, schema    *)
(* validation, cancellation and timeouts.                                  *)
(***************************************************************************)
EXTENDS Integers, Sequences, FiniteSets, TLC

(***************************************************************************)
(* JavaScript values.  Every value is a record with a "type" field.  A     *)
(* number is kept as twice its value, so that x.5 is representable, and    *)
(* NaN is a number with nan = TRUE.                                        *)
(***************************************************************************)
Undefined == [type |-> "undefined"]
Null == [type |-> "null"]
Str(s) == [type |-> "string", val |-> s]
NaN == [type |-> "number", nan |-> TRUE, twice |-> 0]
Num(n) == [type |-> "number", nan |-> FALSE, twice |-> 2 * n]
Halves(t) == [type |-> "number", nan |-> FALSE, twice |-> t]
Obj(f) == [type |-> "object", fields |-> f]
Arr(s) == [type |-> "array", items |-> s]
Bool(b) == [type |-> "boolean", b |-> b]

\* o.k : a property read; undefined when the object has no such property
Get(o, k) == IF o.type = "object" /\ k \in DOMAIN o.fields THEN o.fields[k] ELSE Undefined

\* !v
Falsy(v) ==
    \/ v.type \in {"undefined", "null"}
    \/ v.type = "number" /\ (v.nan \/ v.twice = 0)
    \/ v.type = "boolean" /\ ~v.b
    \/ v.type = "string" /\ (IF "val" \in DOMAIN v THEN v.val = "" ELSE Len(v.chars) = 0)

\* v <= c, v > c for a number v and an integer literal c (false on NaN)
NumLe(v, c) == ~v.nan /\ v.twice <= 2 * c
NumGt(v, c) == ~v.nan /\ v.twice > 2 * c
\* a >= b for two numbers (false when either is NaN)
NumGe(a, b) == ~a.nan /\ ~b.nan /\ a.twice >= b.twice

\* A string kept as its sequence of characters (market symbols are matched
\* character by character)
StrC(cs) == [type |-> "string", chars |-> cs]

(***************************************************************************)
(* Bounds and input domains                                                *)
(***************************************************************************)
MaxMarketLen == 2
Chars == {"A", "-", "a", "1", " "}
Markets == UNION {[1..n -> Chars] : n \in 0..MaxMarketLen}

UpperCase == {"A", "B", "C", "D", "E", "F", "G", "H", "I", "J", "K", "L", "M",
              "N", "O", "P", "Q", "R", "S", "T", "U", "V", "W", "X", "Y", "Z"}

FundingMaxLimit == 10000
OpenInterestMaxLimit == 300

TimeValues == {NaN, Num(-1), Num(0), Num(1), Num(2)}
FundingLimits == {Undefined, NaN, Num(-1), Num(0), Halves(1), Num(1),
                  Num(FundingMaxLimit), Num(FundingMaxLimit + 1)}
OpenInterestLimits == {Undefined, NaN, Num(-1), Num(0), Halves(1), Num(1),
                       Num(OpenInterestMaxLimit), Num(OpenInterestMaxLimit + 1)}
CandleLimits == {NaN, Num(-1), Num(0), Halves(1), Num(1), Num(1000)}
CandleTypes == {"trades", "mark-prices", "index-prices", "", "trade", "xtradesx"}
CandleIntervals == {"", "1m"}
OpenInterestIntervals == {"", "P1H", "P1D", "p1d", "xP1Dx"}
Cursors == {Undefined, Num(0)}
EndTimes == {Undefined, Num(1)}
AbortSignal == [type |-> "signal"]
Signals == {Undefined, AbortSignal}
MarketFilters == {Undefined, Str(""), Str("BTC-USD"), Arr(<<>>),
                  Arr(<<Str("BTC-USD"), Str("ETH-USD")>>)}

(***************************************************************************)
(* Argument validation (clients/info.ts)                                   *)
(***************************************************************************)
\* a pattern that also lets digits through, /^[A-Z0-9-]+$/
MatchMarketWithDigits(market) ==
    /\ Len(market) >= 1
    /\ \A i \in 1..Len(market) : market[i] \in UpperCase \cup {"-", "0", "1"}

\* market.match(/^[A-Z-]+$/): one or more characters, each A-Z or a hyphen
MatchMarket(market) ==
    /\ Len(market) >= 1
    /\ \A i \in 1..Len(market) : market[i] \in UpperCase \cup {"-"}

\* !market || !market.match(/^[A-Z-]+$/)
InvalidMarket(market) == Len(market) = 0 \/ ~MatchMarket(market)

\* candleType.match(/^(trades|mark-prices|index-prices)$/)
MatchCandleType(candleType) == candleType \in {"trades", "mark-prices", "index-prices"}

\* interval.match(/^(P1H|P1D)$/)
MatchOpenInterestInterval(interval) == interval \in {"P1H", "P1D"}

NoError == "none"

\* The first failing check of each method, as the message of the
\* InvalidInputError it throws; NoError when every check passes.
MarketCheck(market) ==
    IF InvalidMarket(market) THEN "Invalid market input." ELSE NoError

\* candles without its candleType check
CandlesCheckNoCandleType(market, candleType, interval, limit) ==
    IF InvalidMarket(market) THEN "Invalid market input."
    ELSE IF interval = "" THEN "Interval is required."
    ELSE IF Falsy(limit) \/ NumLe(limit, 0) THEN "Limit must be a positive number."
    ELSE NoError

CandlesCheck(market, candleType, interval, limit) ==
    IF InvalidMarket(market) THEN "Invalid market input."
    ELSE IF interval = "" THEN "Interval is required."
    ELSE IF Falsy(limit) \/ NumLe(limit, 0) THEN "Limit must be a positive number."
    ELSE IF ~MatchCandleType(candleType) THEN "Invalid candleType."
    ELSE NoError

FundingCheck(market, startTime, endTime, limit) ==
    IF InvalidMarket(market) THEN "Invalid market input."
    ELSE IF Falsy(startTime) \/ NumLe(startTime, 0) THEN "Start time must be a positive number."
    ELSE IF Falsy(endTime) \/ NumLe(endTime, 0) THEN "End time must be a positive number."
    ELSE IF NumGe(startTime, endTime) THEN "Start time must be before end time."
    ELSE IF limit # Undefined /\ (NumLe(limit, 0) \/ NumGt(limit, FundingMaxLimit))
         THEN "Limit must be between 1 and 10000."
    ELSE NoError

OpenInterestCheck(market, interval, startTime, endTime, limit) ==
    IF InvalidMarket(market) THEN "Invalid market input."
    ELSE IF interval = "" \/ ~MatchOpenInterestInterval(interval) THEN "Interval must be P1H or P1D."
    ELSE IF Falsy(startTime) \/ NumLe(startTime, 0) THEN "Start time must be a positive number."
    ELSE IF Falsy(endTime) \/ NumLe(endTime, 0) THEN "End time must be a positive number."
    ELSE IF NumGe(startTime, endTime) THEN "Start time must be before end time."
    ELSE IF limit # Undefined /\ (NumLe(limit, 0) \/ NumGt(limit, OpenInterestMaxLimit))
         THEN "Limit must be between 1 and 300."
    ELSE NoError

InvalidInputError(message) == [name |-> "InvalidInputError", message |-> <<message>>]

(***************************************************************************)
(* What a transport can resolve with: JSON values, among them the two      *)
(* envelope variants with well-formed and malformed payloads.              *)
(***************************************************************************)
ValidOpenInterest == Obj([i |-> Str("1.5"), I |-> Str("2"), t |-> Num(1)])
OpenInterestMissingField == Obj([i |-> Str("1.5"), t |-> Num(1)])
ValidFundingRate == Obj([m |-> Str("BTC-USD"), T |-> Num(1), f |-> Str("0.0001")])
FundingRateMistyped == Obj([m |-> Str("BTC-USD"), T |-> Str("1"), f |-> Str("0.0001")])
ValidCandle == Obj([o |-> Str("1"), c |-> Str("2"), h |-> Str("3"), l |-> Str("1"), T |-> Num(1)])
ValidTrade == Obj([i |-> Num(7), m |-> Str("BTC-USD"), S |-> Str("BUY"), tT |-> Str("TRADE"),
                   T |-> Num(1), p |-> Str("1"), q |-> Str("2")])
ValidOrderBook == Obj([market |-> Str("BTC-USD"),
                       bid |-> Arr(<<Obj([qty |-> Str("1"), price |-> Str("2")])>>),
                       ask |-> Arr(<<>>)])
ValidDeleverageLevels ==
    Obj([shortPositions |-> Arr(<<Obj([level |-> Num(1), rankingLowerBound |-> Str("0.1")])>>),
         longPositions |-> Arr(<<>>)])
ValidMarketStats ==
    Obj([dailyVolume |-> Str("1"), dailyVolumeBase |-> Str("1"), dailyPriceChange |-> Str("1"),
         dailyPriceChangePercentage |-> Str("1"), dailyLow |-> Str("1"), dailyHigh |-> Str("1"),
         lastPrice |-> Str("1"), askPrice |-> Str("1"), bidPrice |-> Str("1"),
         markPrice |-> Str("1"), indexPrice |-> Str("1"), fundingRate |-> Str("1"),
         nextFundingRate |-> Num(1), openInterest |-> Str("1"), openInterestBase |-> Str("1"),
         deleverageLevels |-> ValidDeleverageLevels])
\* the same record with lastPrice delivered as a number
MarketStatsMistyped ==
    Obj([f \in DOMAIN ValidMarketStats.fields |->
            IF f = "lastPrice" THEN Num(1) ELSE ValidMarketStats.fields[f]])

DataSamples ==
    {Arr(<<>>), Arr(<<ValidOpenInterest>>), Arr(<<OpenInterestMissingField>>),
     Arr(<<ValidFundingRate>>), Arr(<<FundingRateMistyped>>), Arr(<<ValidCandle>>),
     Arr(<<ValidTrade>>), ValidOrderBook, ValidMarketStats, MarketStatsMistyped, Num(7)}

PaginationSamples ==
    {Null, Obj([cursor |-> Num(5), count |-> Num(1)]), Obj([cursor |-> Num(-1), count |-> Halves(1)])}

ErrorEnvelope ==
    Obj([status |-> Str("ERROR"),
         error |-> Obj([code |-> Str("NOT_FOUND"), message |-> Str("Market not found")])])

Payloads ==
    {Null, Num(5), Obj(<<>>), Obj([status |-> Str("WEIRD")]), Obj([status |-> Str("ERROR")]),
     ErrorEnvelope, Obj([status |-> Str("OK")])}
    \cup {Obj([status |-> Str("OK"), data |-> d]) : d \in DataSamples}
    \cup {Obj([status |-> Str("OK"), data |-> d, pagination |-> p]) :
            d \in {Arr(<<>>), Arr(<<ValidFundingRate>>)}, p \in PaginationSamples}

\* What a transport can reject with
TransportErrors ==
    {[name |-> "HttpRequestError", message |-> <<"HTTP request failed: status ", "500">>],
     [name |-> "AbortError", message |-> <<"This operation was aborted">>],
     [name |-> "TypeError", message |-> <<"fetch failed">>]}

(***************************************************************************)
(* The zod schemas of the endpoints' records (schemas/info/...)            *)
(***************************************************************************)
ZString(v) == v.type = "string"
ZNumber(v) == v.type = "number" /\ ~v.nan
ZInt(v) == ZNumber(v) /\ v.twice % 2 = 0
ZIntPositive(v) == ZInt(v) /\ v.twice > 0
ZIntMin0(v) == ZInt(v) /\ v.twice >= 0
ZBoolean(v) == v.type = "boolean"
ZObject(v) == v.type = "object"
ZOptionalString(v) == v = Undefined \/ ZString(v)
ZEnum(v, values) == v.type = "string" /\ "val" \in DOMAIN v /\ v.val \in values
ZArray(v) == v.type = "array"
ZItems(v) == IF ZArray(v) THEN {v.items[n] : n \in DOMAIN v.items} ELSE {}
ZAllStrings(v, keys) == \A k \in keys : ZString(Get(v, k))

OpenInterestSchema(v) ==
    ZObject(v) /\ ZString(Get(v, "i")) /\ ZString(Get(v, "I")) /\ ZInt(Get(v, "t"))

FundingRateSchema(v) ==
    ZObject(v) /\ ZString(Get(v, "m")) /\ ZInt(Get(v, "T")) /\ ZString(Get(v, "f"))

PaginationSchema(v) == ZObject(v) /\ ZInt(Get(v, "cursor")) /\ ZInt(Get(v, "count"))

CandleSchema(v) ==
    /\ ZObject(v)
    /\ ZAllStrings(v, {"o", "c", "h", "l"})
    /\ ZOptionalString(Get(v, "v"))
    /\ ZInt(Get(v, "T"))

MarketTradeSchema(v) ==
    /\ ZObject(v)
    /\ ZInt(Get(v, "i"))
    /\ ZString(Get(v, "m"))
    /\ ZEnum(Get(v, "S"), {"BUY", "SELL"})
    /\ ZEnum(Get(v, "tT"), {"TRADE", "LIQUIDATION", "DELEVERAGE"})
    /\ ZIntPositive(Get(v, "T"))
    /\ ZString(Get(v, "p"))
    /\ ZString(Get(v, "q"))

OrderBookEntrySchema(v) == ZObject(v) /\ ZString(Get(v, "qty")) /\ ZString(Get(v, "price"))

MarketOrderBookSchema(v) ==
    /\ ZObject(v)
    /\ ZString(Get(v, "market"))
    /\ (ZArray(Get(v, "bid")) /\ \A item \in ZItems(Get(v, "bid")) : OrderBookEntrySchema(item))
    /\ (ZArray(Get(v, "ask")) /\ \A item \in ZItems(Get(v, "ask")) : OrderBookEntrySchema(item))

MarketStatsSchema(v) ==
    /\ ZObject(v)
    /\ ZAllStrings(v, {"dailyVolume", "dailyVolumeBase", "dailyPriceChangePercentage",
                       "dailyLow", "dailyHigh", "lastPrice", "askPrice", "bidPrice",
                       "markPrice", "indexPrice", "fundingRate", "openInterest",
                       "openInterestBase"})
    /\ ZOptionalString(Get(v, "dailyPriceChange"))
    /\ ZIntPositive(Get(v, "nextFundingRate"))

DeleverageLevel(v) ==
    /\ ZObject(v)
    /\ ZInt(Get(v, "level")) /\ Get(v, "level").twice >= 2 * 1 /\ Get(v, "level").twice <= 2 * 4
    /\ ZString(Get(v, "rankingLowerBound"))

DeleverageLevelsSchema(v) ==
    /\ ZObject(v)
    /\ (ZArray(Get(v, "shortPositions")) /\ \A item \in ZItems(Get(v, "shortPositions")) : DeleverageLevel(item))
    /\ (ZArray(Get(v, "longPositions")) /\ \A item \in ZItems(Get(v, "longPositions")) : DeleverageLevel(item))

MarketStatsWithDeleverageSchema(v) ==
    /\ MarketStatsSchema(v)
    /\ ZString(Get(v, "dailyPriceChange"))
    /\ DeleverageLevelsSchema(Get(v, "deleverageLevels"))

TradingConfigSchema(v) ==
    /\ ZObject(v)
    /\ ZAllStrings(v, {"minOrderSize", "minOrderSizeChange", "minPriceChange",
                       "maxMarketOrderValue", "maxLimitOrderValue", "maxPositionValue",
                       "maxLeverage", "maxNumOrders", "limitPriceCap", "limitPriceFloor"})

L2ConfigSchema(v) ==
    /\ ZObject(v)
    /\ Get(v, "type") = Str("STARKX")
    /\ ZString(Get(v, "collateralId"))
    /\ ZIntPositive(Get(v, "collateralResolution"))
    /\ ZString(Get(v, "syntheticId"))
    /\ ZIntPositive(Get(v, "syntheticResolution"))

ExtendedMarketDataSchema(v) ==
    /\ ZObject(v)
    /\ ZAllStrings(v, {"name", "assetName", "collateralAssetName"})
    /\ ZIntMin0(Get(v, "assetPrecision"))
    /\ ZIntMin0(Get(v, "collateralAssetPrecision"))
    /\ ZBoolean(Get(v, "active"))
    /\ ZEnum(Get(v, "status"), {"ACTIVE", "REDUCE_ONLY", "DELISTED", "PRELISTED", "DISABLED"})
    /\ MarketStatsSchema(Get(v, "marketStats"))
    /\ TradingConfigSchema(Get(v, "tradingConfig"))
    /\ L2ConfigSchema(Get(v, "l2Config"))
    /\ ZBoolean(Get(v, "visibleOnUi"))
    /\ ZIntPositive(Get(v, "createdAt"))

\* The schema of the data payload of each endpoint's success envelope
SuccessDataSchema(method, data) ==
    CASE method = "markets" -> (ZArray(data) /\ \A item \in ZItems(data) : ExtendedMarketDataSchema(item))
      [] method = "marketStats" -> MarketStatsWithDeleverageSchema(data)
      [] method = "marketOrderBook" -> MarketOrderBookSchema(data)
      [] method = "marketTrades" -> (ZArray(data) /\ \A item \in ZItems(data) : MarketTradeSchema(item))
      [] method = "candles" -> (ZArray(data) /\ \A item \in ZItems(data) : CandleSchema(item))
      [] method = "funding" -> (ZArray(data) /\ \A item \in ZItems(data) : FundingRateSchema(item))
      [] method = "openInterest" -> (ZArray(data) /\ \A item \in ZItems(data) : OpenInterestSchema(item))

\* Error codes (schemas/errors)
GeneralErrorCodes ==
    {"BAD_REQUEST", "UNAUTHORIZED", "FORBIDDEN", "NOT_FOUND", "UNPROCESSABLE_ENTITY",
     "INTERNAL_SERVER_ERROR"}
MarketAssetAccountErrorCodes ==
    {"AssetNotFound", "MarketNotFound", "MarketDisabled", "MarketGroupNotFound",
     "AccountNotFound", "NotSupportedInterval", "UnhandledError", "ClientNotFound",
     "ActionNotAllowed", "MaintenanceMode", "PostOnlyMode", "ReduceOnlyMode",
     "InvalidPercentage", "MarketReduceOnly"}
GeneralErrorCodeSchema(v) == ZEnum(v, GeneralErrorCodes)
MarketAssetAccountErrorCodeSchema(v) == ZEnum(v, MarketAssetAccountErrorCodes)
\* z.union([GeneralErrorCodeSchema, MarketAssetAccountErrorCodeSchema])
MarketErrorCodeSchema(v) == GeneralErrorCodeSchema(v) \/ MarketAssetAccountErrorCodeSchema(v)

\* z.literal(text)
ZLiteral(v, text) == v = Str(text)

\* Response envelopes.  z.object checks the keys it declares and ignores the
\* others; its output holds the declared keys only.
GetFundingHistorySuccessSchema(v) ==
    /\ ZObject(v)
    /\ ZLiteral(Get(v, "status"), "OK")
    /\ (ZArray(Get(v, "data")) /\ \A item \in ZItems(Get(v, "data")) : FundingRateSchema(item))
    /\ (Get(v, "pagination") = Undefined \/ PaginationSchema(Get(v, "pagination")))

\* an error envelope that takes any string for a code
GetFundingHistoryErrorAnyCode(v) ==
    /\ ZObject(v)
    /\ ZLiteral(Get(v, "status"), "ERROR")
    /\ ZObject(Get(v, "error"))
    /\ ZString(Get(Get(v, "error"), "code"))
    /\ ZString(Get(Get(v, "error"), "message"))

GetFundingHistoryErrorSchema(v) ==
    /\ ZObject(v)
    /\ ZLiteral(Get(v, "status"), "ERROR")
    /\ ZObject(Get(v, "error"))
    /\ GeneralErrorCodeSchema(Get(Get(v, "error"), "code"))
    /\ ZString(Get(Get(v, "error"), "message"))

\* z.discriminatedUnion("status", [success, error]): the status chooses the
\* variant the value is checked against
GetFundingResponseSchema(v) ==
    IF Get(v, "status") = Str("OK") THEN GetFundingHistorySuccessSchema(v)
    ELSE IF Get(v, "status") = Str("ERROR") THEN GetFundingHistoryErrorSchema(v)
    ELSE FALSE

GetMarketOrderBookSuccessSchema(v) ==
    /\ ZObject(v)
    /\ ZLiteral(Get(v, "status"), "OK")
    /\ MarketOrderBookSchema(Get(v, "data"))

GetMarketOrderBookErrorSchema(v) ==
    /\ ZObject(v)
    /\ ZLiteral(Get(v, "status"), "ERROR")
    /\ ZObject(Get(v, "error"))
    /\ MarketErrorCodeSchema(Get(Get(v, "error"), "code"))
    /\ ZString(Get(Get(v, "error"), "message"))

GetMarketOrderBookResponseSchema(v) ==
    IF Get(v, "status") = Str("OK") THEN GetMarketOrderBookSuccessSchema(v)
    ELSE IF Get(v, "status") = Str("ERROR") THEN GetMarketOrderBookErrorSchema(v)
    ELSE FALSE

\* the output of z.object: the declared keys of the value
Pick(v, keys) == Obj([k \in DOMAIN v.fields \cap keys |-> v.fields[k]])
PickItems(v, keys) == Arr([n \in DOMAIN v.items |-> Pick(v.items[n], keys)])

ErrorOutput(v) ==
    Obj([status |-> Str("ERROR"), error |-> Pick(Get(v, "error"), {"code", "message"})])

FundingOutput(v) ==
    IF Get(v, "status") = Str("ERROR") THEN ErrorOutput(v)
    ELSE Obj(("status" :> Str("OK"))
             @@ ("data" :> PickItems(Get(v, "data"), {"m", "T", "f"}))
             @@ (IF Get(v, "pagination") = Undefined THEN <<>>
                 ELSE "pagination" :> Pick(Get(v, "pagination"), {"cursor", "count"})))

OrderBookOutput(v) ==
    IF Get(v, "status") = Str("ERROR") THEN ErrorOutput(v)
    ELSE LET data == Get(v, "data")
         IN Obj([status |-> Str("OK"),
                 data |-> Obj([market |-> Get(data, "market"),
                               bid |-> PickItems(Get(data, "bid"), {"qty", "price"}),
                               ask |-> PickItems(Get(data, "ask"), {"qty", "price"})])])

\* schema.safeParse(v): a result, never an exception
SafeParse(schema, v) ==
    IF schema = "funding"
    THEN IF GetFundingResponseSchema(v) THEN [success |-> TRUE, data |-> FundingOutput(v)]
         ELSE [success |-> FALSE, data |-> Undefined]
    ELSE IF GetMarketOrderBookResponseSchema(v)
         THEN [success |-> TRUE, data |-> OrderBookOutput(v)]
         ELSE [success |-> FALSE, data |-> Undefined]

(***************************************************************************)
(* Text.  A message is the sequence of the pieces it is concatenated from. *)
(***************************************************************************)
NumberText(v) ==
    IF v.nan THEN <<"NaN">>
    ELSE IF v.twice % 2 = 0 THEN <<ToString(v.twice \div 2)>>
    ELSE IF v.twice > 0 THEN <<ToString(v.twice \div 2), ".5">>
    ELSE <<"-", ToString((0 - v.twice) \div 2), ".5">>

StringText(v) == IF "val" \in DOMAIN v THEN <<v.val>> ELSE v.chars

RECURSIVE SetToSeq(_)
SetToSeq(S) == IF S = {} THEN <<>> ELSE LET x == CHOOSE y \in S : TRUE IN <<x>> \o SetToSeq(S \ {x})

\* JSON.stringify(v)
RECURSIVE JSONstringify(_)
RECURSIVE StringifyItems(_)
RECURSIVE StringifyFields(_, _)
StringifyItems(items) ==
    IF Len(items) = 0 THEN <<>>
    ELSE (IF Head(items).type = "undefined" THEN <<"null">> ELSE JSONstringify(Head(items)))
         \o (IF Len(items) > 1 THEN <<",">> ELSE <<>>) \o StringifyItems(Tail(items))
StringifyFields(fields, keys) ==
    IF Len(keys) = 0 THEN <<>>
    ELSE <<"\"", Head(keys), "\"", ":">> \o JSONstringify(fields[Head(keys)])
         \o (IF Len(keys) > 1 THEN <<",">> ELSE <<>>) \o StringifyFields(fields, Tail(keys))
JSONstringify(v) ==
    CASE v.type = "undefined" -> <<"undefined">>
      [] v.type = "null" -> <<"null">>
      [] v.type = "boolean" -> <<ToString(v.b)>>
      [] v.type = "number" -> IF v.nan THEN <<"null">> ELSE NumberText(v)
      [] v.type = "string" -> <<"\"">> \o StringText(v) \o <<"\"">>
      [] v.type = "array" -> <<"[">> \o StringifyItems(v.items) \o <<"]">>
      [] v.type = "object" ->
            <<"{">> \o StringifyFields(v.fields,
                          SetToSeq({k \in DOMAIN v.fields : v.fields[k].type # "undefined"}))
            \o <<"}">>

\* `${v}` in a template literal
TemplateText(v) ==
    CASE v.type = "undefined" -> <<"undefined">>
      [] v.type = "null" -> <<"null">>
      [] v.type = "boolean" -> <<ToString(v.b)>>
      [] v.type = "number" -> NumberText(v)
      [] v.type = "string" -> StringText(v)
      [] v.type = "array" -> <<"[array]">>
      [] v.type = "object" -> <<"[object Object]">>

\* the pieces of part occur, in order and adjacent, in whole
Contains(whole, part) ==
    \E n \in 0..(Len(whole) - Len(part)) :
        \A k \in 1..Len(part) : whole[n + k] = part[k]

(***************************************************************************)
(* Envelope unwrapping (clients/info.ts)                                   *)
(***************************************************************************)
NoErrorValue == [name |-> "", message |-> <<>>]
Pending == [kind |-> "pending", value |-> Undefined, error |-> NoErrorValue]
Resolved(v) == [kind |-> "resolved", value |-> v, error |-> NoErrorValue]
Rejected(e) == [kind |-> "rejected", value |-> Undefined, error |-> e]

Error(message) == [name |-> "Error", message |-> message]
\* reading a property of undefined or null throws
Nullish(v) == v.type \in {"undefined", "null"}
PropertyTypeError(v, prop) ==
    [name |-> "TypeError",
     message |-> <<"Cannot read properties of ", v.type, " (reading '", prop, "')">>]

ApiError(response) ==
    IF Nullish(Get(response, "error"))
    THEN Rejected(PropertyTypeError(Get(response, "error"), "code"))
    ELSE Rejected(Error(<<"API Error: ">> \o TemplateText(Get(Get(response, "error"), "code"))
                        \o <<" - ">> \o TemplateText(Get(Get(response, "error"), "message"))))

UnexpectedFormat(response) ==
    Rejected(Error(<<"Unexpected response format: ">> \o JSONstringify(response)))

\* an unwrapping that refuses an OK envelope without data
UnwrapRequireData(response) ==
    IF Nullish(response) THEN Rejected(PropertyTypeError(response, "status"))
    ELSE IF Get(response, "status") = Str("OK") THEN
        IF Get(response, "data") = Undefined THEN UnexpectedFormat(response)
        ELSE Resolved(Get(response, "data"))
    ELSE IF Get(response, "status") = Str("ERROR") THEN ApiError(response)
    ELSE UnexpectedFormat(response)

\* markets, marketStats, marketOrderBook, marketTrades, candles, openInterest
Unwrap(response) ==
    IF Nullish(response) THEN Rejected(PropertyTypeError(response, "status"))
    ELSE IF Get(response, "status") = Str("OK") THEN Resolved(Get(response, "data"))
    ELSE IF Get(response, "status") = Str("ERROR") THEN ApiError(response)
    ELSE UnexpectedFormat(response)

\* v.length
Length(v) == IF v.type = "array" THEN Num(Len(v.items)) ELSE Undefined

\* funding with a default pagination that does not count the items
UnwrapFundingCountZero(response) ==
    IF Nullish(response) THEN Rejected(PropertyTypeError(response, "status"))
    ELSE IF Get(response, "status") = Str("OK") THEN
        IF ~Falsy(Get(response, "pagination"))
        THEN Resolved(Obj([data |-> Get(response, "data"),
                           pagination |-> Get(response, "pagination")]))
        ELSE IF Nullish(Get(response, "data"))
        THEN Rejected(PropertyTypeError(Get(response, "data"), "length"))
        ELSE Resolved(Obj([data |-> Get(response, "data"),
                           pagination |-> Obj([cursor |-> Num(0), count |-> Num(0)])]))
    ELSE IF Get(response, "status") = Str("ERROR") THEN ApiError(response)
    ELSE UnexpectedFormat(response)

\* funding
UnwrapFunding(response) ==
    IF Nullish(response) THEN Rejected(PropertyTypeError(response, "status"))
    ELSE IF Get(response, "status") = Str("OK") THEN
        IF ~Falsy(Get(response, "pagination"))
        THEN Resolved(Obj([data |-> Get(response, "data"),
                           pagination |-> Get(response, "pagination")]))
        ELSE IF Nullish(Get(response, "data"))
        THEN Rejected(PropertyTypeError(Get(response, "data"), "length"))
        ELSE Resolved(Obj([data |-> Get(response, "data"),
                           pagination |-> Obj([cursor |-> Num(0),
                                               count |-> Length(Get(response, "data"))])]))
    ELSE IF Get(response, "status") = Str("ERROR") THEN ApiError(response)
    ELSE UnexpectedFormat(response)

(***************************************************************************)
(* State                                                                   *)
(***************************************************************************)
VARIABLES
    pc,          \* InfoClient call: "idle", "awaiting" (transport.request pending), "settled"
    call,        \* the method called and its arguments
    requests,    \* the invocations of transport.request, in order
    transport,   \* the promise transport.request returned
    result       \* the promise the method returned

clientVars == <<pc, call, requests, transport, result>>

VARIABLES
    optServer,      \* options.server as given to the constructor
    isTestnet,      \* this.isTestnet
    server,         \* this.server: the API base of mainnet and of testnet
    url,            \* the URL of the Request that request builds
    optTimeout,     \* options.timeout as given to the constructor
    timeout,        \* this.timeout
    hasOnRequest,   \* this.onRequest is set
    hasOnResponse,  \* this.onResponse is set
    hpc,            \* request: "idle", "onRequest", "fetch", "onResponse", "text", "json", "done"
    awaited,        \* the promise request is awaiting (hook, fetch, body read)
    callerSignal,   \* the caller's AbortSignal: "none", "live", "aborted"
    signalAtCall,   \* callerSignal when request was called
    controller,     \* the call's AbortController: "none", "live", "aborted"
    timer,          \* the call's timeout timer: "none", "pending", "fired", "cleared"
    requestSignal,  \* the signal given to new Request: "caller", "controller", "none"
    finalSignal,    \* the signal finalRequest carries
    netCalls,       \* network calls performed
    response,       \* finalResponse
    outcome,        \* the promise request returned
    abortedDuring,  \* the step at which the caller aborted a pending call, or ""
    timedOutDuring, \* the step at which the timer fired, or ""
    calls,          \* concurrent calls of request on the one transport: the locals of each
    sent,           \* finalRequest, the request given to fetch: "none", "original", "replacement"
    parsed          \* a value handed to a response schema, and the result of safeParse

httpVars == <<optServer, isTestnet, server, url, optTimeout, timeout, hasOnRequest, hasOnResponse, hpc, awaited, callerSignal,
              signalAtCall, controller, timer, requestSignal, finalSignal, netCalls,
              response, outcome, abortedDuring, timedOutDuring, calls, sent, parsed>>
vars == <<pc, call, requests, transport, result, optServer, isTestnet, server, url,
          optTimeout, timeout, hasOnRequest,
          hasOnResponse, hpc, awaited, callerSignal, signalAtCall, controller, timer,
          requestSignal, finalSignal, netCalls, response, outcome, abortedDuring,
          timedOutDuring, calls, sent, parsed>>

NoCall ==
    [method |-> "none", market |-> <<>>, marketFilter |-> Undefined, candleType |-> "",
     interval |-> "", limit |-> Undefined, startTime |-> Undefined, endTime |-> Undefined,
     cursor |-> Undefined, signal |-> Undefined]

ClientInit ==
    /\ pc = "idle"
    /\ call = NoCall
    /\ requests = <<>>
    /\ transport = Pending
    /\ result = Pending

\* this.transport.request(method, path, params, pathParams, signal)
Request(path, params, pathParams, signal) ==
    [method |-> "GET", path |-> path, params |-> params, pathParams |-> pathParams,
     signal |-> signal]

\* The synchronous part of a method, up to its await: a failed check throws
\* (the promise rejects), otherwise transport.request is invoked.
Invoke(c, check, request) ==
    /\ pc = "idle"
    /\ UNCHANGED httpVars
    /\ call' = c
    /\ IF check # NoError
       THEN /\ result' = Rejected(InvalidInputError(check))
            /\ pc' = "settled"
            /\ UNCHANGED <<requests, transport>>
       ELSE /\ requests' = Append(requests, request)
            /\ pc' = "awaiting"
            /\ UNCHANGED <<transport, result>>

\* an optional parameter tested for truthiness instead of !== undefined
OptionalTruthy(key, v) == IF ~Falsy(v) THEN key :> v ELSE <<>>

Optional(key, v) == IF v # Undefined THEN key :> v ELSE <<>>

markets(marketFilter, signal) ==
    Invoke([NoCall EXCEPT !.method = "markets", !.marketFilter = marketFilter,
                          !.signal = signal],
           NoError,
           Request("info/markets",
                   Obj(IF ~Falsy(marketFilter) THEN [market |-> marketFilter] ELSE <<>>),
                   Undefined, signal))

marketStats(market, signal) ==
    Invoke([NoCall EXCEPT !.method = "marketStats", !.market = market, !.signal = signal],
           MarketCheck(market),
           Request("info/markets/{market}/stats", Undefined,
                   Obj([market |-> StrC(market)]), signal))

\* marketOrderBook with the market check of the other methods
marketOrderBookValidated(market, signal) ==
    Invoke([NoCall EXCEPT !.method = "marketOrderBook", !.market = market, !.signal = signal],
           MarketCheck(market),
           Request("info/markets/{market}/orderbook", Undefined,
                   Obj([market |-> StrC(market)]), signal))

marketOrderBook(market, signal) ==
    Invoke([NoCall EXCEPT !.method = "marketOrderBook", !.market = market, !.signal = signal],
           NoError,
           Request("info/markets/{market}/orderbook", Undefined,
                   Obj([market |-> StrC(market)]), signal))

marketTrades(market, signal) ==
    Invoke([NoCall EXCEPT !.method = "marketTrades", !.market = market, !.signal = signal],
           MarketCheck(market),
           Request("info/markets/{market}/trades", Undefined,
                   Obj([market |-> StrC(market)]), signal))

candles(market, candleType, interval, limit, endTime, signal) ==
    Invoke([NoCall EXCEPT !.method = "candles", !.market = market,
                          !.candleType = candleType, !.interval = interval,
                          !.limit = limit, !.endTime = endTime, !.signal = signal],
           CandlesCheck(market, candleType, interval, limit),
           Request("info/candles/{market}/{candleType}",
                   Obj([interval |-> Str(interval), limit |-> limit]
                       @@ Optional("endTime", endTime)),
                   Obj([market |-> StrC(market), candleType |-> Str(candleType)]), signal))

funding(market, startTime, endTime, cursor, limit, signal) ==
    Invoke([NoCall EXCEPT !.method = "funding", !.market = market,
                          !.startTime = startTime, !.endTime = endTime,
                          !.cursor = cursor, !.limit = limit, !.signal = signal],
           FundingCheck(market, startTime, endTime, limit),
           Request("info/{market}/funding",
                   Obj([startTime |-> startTime, endTime |-> endTime]
                       @@ Optional("cursor", cursor) @@ Optional("limit", limit)),
                   Obj([market |-> StrC(market)]), signal))

openInterest(market, interval, startTime, endTime, limit, signal) ==
    Invoke([NoCall EXCEPT !.method = "openInterest", !.market = market,
                          !.interval = interval, !.startTime = startTime,
                          !.endTime = endTime, !.limit = limit, !.signal = signal],
           OpenInterestCheck(market, interval, startTime, endTime, limit),
           Request("info/{market}/open-interests",
                   Obj([interval |-> Str(interval), startTime |-> startTime,
                        endTime |-> endTime] @@ Optional("limit", limit)),
                   Obj([market |-> StrC(market)]), signal))

\* The transport's promise settles: it resolves with some JSON value or
\* rejects with a transport error.
TransportResolves ==
    /\ pc = "awaiting" /\ transport.kind = "pending"
    /\ \E payload \in Payloads : transport' = Resolved(payload)
    /\ UNCHANGED <<pc, call, requests, result>>
    /\ UNCHANGED httpVars

TransportRejects ==
    /\ pc = "awaiting" /\ transport.kind = "pending"
    /\ \E e \in TransportErrors : transport' = Rejected(e)
    /\ UNCHANGED <<pc, call, requests, result>>
    /\ UNCHANGED httpVars

\* a method that catches the transport's rejection and resolves with undefined
AfterAwaitSwallowsError ==
    /\ pc = "awaiting" /\ transport.kind # "pending"
    /\ result' = IF transport.kind = "rejected" THEN Resolved(Undefined)
                 ELSE IF call.method = "funding" THEN UnwrapFunding(transport.value)
                 ELSE Unwrap(transport.value)
    /\ pc' = "settled"
    /\ UNCHANGED <<call, requests, transport>>
    /\ UNCHANGED httpVars

\* The rest of a method, after its await: a rejection propagates, a value is
\* unwrapped.
AfterAwait ==
    /\ pc = "awaiting" /\ transport.kind # "pending"
    /\ result' = IF transport.kind = "rejected" THEN Rejected(transport.error)
                 ELSE IF call.method = "funding" THEN UnwrapFunding(transport.value)
                 ELSE Unwrap(transport.value)
    /\ pc' = "settled"
    /\ UNCHANGED <<call, requests, transport>>
    /\ UNCHANGED httpVars

(***************************************************************************)
(* HttpTransport (transports/http)                                         *)
(***************************************************************************)
DefaultTimeout == 10000
TimeoutOptions == {Undefined, Null, Num(0), Num(5000)}

\* a ?? b
NullishCoalesce(a, b) == IF Nullish(a) THEN b ELSE a

\* constructor: this.timeout = options?.timeout ?? 10_000
ConstructTimeout(option) == NullishCoalesce(option, Num(DefaultTimeout))

\* A response: its status code, its content-type header (null when absent),
\* its body, whether a hook supplied it, and whether its body stream is errored
Response(status, contentType, body, replaced) ==
    [status |-> status, contentType |-> contentType, body |-> body, replaced |-> replaced,
     bodyErrored |-> FALSE]
NoResponse == Response(0, Null, Undefined, FALSE)
\* The promise request awaits: what it settled with is a hook's kind of return
\* ("void", "replaceKeep", "replaceDrop", "replace"), an error's name, or a body.
Awaiting(kind, what, resp, value) == [kind |-> kind, what |-> what, resp |-> resp, value |-> value]
AwaitPending == Awaiting("pending", "", NoResponse, Undefined)
Fulfilled(what) == Awaiting("fulfilled", what, NoResponse, Undefined)
Failed(errorName) == Awaiting("rejected", errorName, NoResponse, Undefined)

AbortError == [name |-> "AbortError", message |-> <<"This operation was aborted">>]
NetworkError == [name |-> "TypeError", message |-> <<"fetch failed">>]
HookError == [name |-> "Error", message |-> <<"hook failed">>]
SyntaxError == [name |-> "SyntaxError", message |-> <<"Unexpected end of JSON input">>]
\* new HttpRequestError(response, responseBody)
HttpRequestError(resp, responseBody) ==
    [name |-> "HttpRequestError",
     message |-> <<"HTTP request failed: status ", ToString(resp.status)>>
                 \o (IF ~Falsy(responseBody)
                     THEN <<", body \"">> \o StringText(responseBody) \o <<"\"">>
                     ELSE <<>>),
     status |-> resp.status,
     responseBody |-> responseBody]
ErrorNamed(name) ==
    CASE name = "AbortError" -> AbortError
      [] name = "TypeError" -> NetworkError
      [] name = "SyntaxError" -> SyntaxError
      [] OTHER -> HookError

\* constructor: this.isTestnet = options?.isTestnet ?? false
IsTestnetOptions == {Undefined, Bool(TRUE)}
ConstructIsTestnet(option) == NullishCoalesce(option, Bool(FALSE))

\* constructor: this.server = {mainnet: {api: options?.server?.mainnet?.api ?? ...},
\*                             testnet: {api: options?.server?.testnet?.api ?? ...}}
DefaultMainnetApi == "https://app.extended.exchange"
DefaultTestnetApi == "https://testnet.extended.exchange"
ServerOptions == {Undefined, Obj([mainnet |-> Obj([api |-> Str("https://proxy.example")])])}
ConstructServer(option) ==
    [mainnet |-> NullishCoalesce(Get(Get(option, "mainnet"), "api"), Str(DefaultMainnetApi)),
     testnet |-> NullishCoalesce(Get(Get(option, "testnet"), "api"), Str(DefaultTestnetApi))]

NoUrl == [origin |-> Undefined, path |-> <<>>, query |-> {}]
\* no value has been handed to a schema
NoParse == [schema |-> "", input |-> Undefined, result |-> [success |-> FALSE, data |-> Undefined]]

\* Concurrent calls of request: each has its own locals (controller,
\* timeoutId, request, response) and its caller's signal
NumCalls == 2
CallIds == 1..NumCalls
NoCallState ==
    [hpc |-> "idle", awaited |-> AwaitPending, signal |-> "none", signalAtCall |-> "none",
     controller |-> "none", timer |-> "none", requestSignal |-> "none",
     finalSignal |-> "none", response |-> NoResponse, outcome |-> Pending,
     abortedDuring |-> "", timedOutDuring |-> ""]

\* The state after new HttpTransport(options), before any request
HttpInit ==
    /\ optServer \in ServerOptions
    /\ \E option \in IsTestnetOptions : isTestnet = ConstructIsTestnet(option)
    /\ server = ConstructServer(optServer)
    /\ url = NoUrl
    /\ optTimeout \in TimeoutOptions
    /\ timeout = ConstructTimeout(optTimeout)
    /\ hasOnRequest \in BOOLEAN
    /\ hasOnResponse \in BOOLEAN
    /\ hpc = "idle"
    /\ awaited = AwaitPending
    /\ callerSignal \in {"none", "live", "aborted"}
    /\ signalAtCall = "none"
    /\ controller = "none"
    /\ timer = "none"
    /\ requestSignal = "none"
    /\ finalSignal = "none"
    /\ netCalls = 0
    /\ response = NoResponse
    /\ outcome = Pending
    /\ abortedDuring = ""
    /\ timedOutDuring = ""
    /\ calls = [i \in CallIds |-> NoCallState]
    /\ sent = "none"
    /\ parsed = NoParse

\* The client section leaves the transport untouched, and conversely
HttpQuiet ==
    /\ optServer = Undefined
    /\ isTestnet = ConstructIsTestnet(Undefined)
    /\ server = ConstructServer(optServer)
    /\ url = NoUrl
    /\ optTimeout = Undefined
    /\ timeout = ConstructTimeout(optTimeout)
    /\ hasOnRequest = FALSE
    /\ hasOnResponse = FALSE
    /\ hpc = "idle"
    /\ awaited = AwaitPending
    /\ callerSignal = "none"
    /\ signalAtCall = "none"
    /\ controller = "none"
    /\ timer = "none"
    /\ requestSignal = "none"
    /\ finalSignal = "none"
    /\ netCalls = 0
    /\ response = NoResponse
    /\ outcome = Pending
    /\ abortedDuring = ""
    /\ timedOutDuring = ""
    /\ calls = [i \in CallIds |-> NoCallState]
    /\ sent = "none"
    /\ parsed = NoParse

JsonBodies == {Null, ErrorEnvelope, Obj([status |-> Str("OK"), data |-> Arr(<<>>)])}
\* bodies that are not JSON: a page of HTML, nothing at all
TextBody(pieces) == [type |-> "text", chars |-> pieces]
Bodies == JsonBodies \cup {TextBody(<<"<html>">>), TextBody(<<>>)}
Statuses == {200, 299, 404}
ContentTypes == {Null, StrC(<<"text/html">>), StrC(<<"application/json", "; charset=utf-8">>)}
\* the bodies of the responses a post-receive hook substitutes
ReplacementBodies == {Obj([status |-> Str("OK"), data |-> Arr(<<>>)])}

\* response.ok: the status is in the range 200-299
OkOnly200(resp) == resp.status = 200
Ok(resp) == resp.status >= 200 /\ resp.status <= 299
\* contentType?.includes("application/json")
IncludesJson(contentType) ==
    IF Nullish(contentType) THEN Undefined
    ELSE Bool(Contains(contentType.chars, <<"application/json">>))
\* response.text(): the body as text
BodyText(body) == IF body.type = "text" THEN StrC(body.chars) ELSE StrC(JSONstringify(body))

\* const controller = this.timeout ? new AbortController() : null
NewController(t) == IF ~Falsy(t) THEN "live" ELSE "none"
\* const timeoutId = this.timeout ? setTimeout(...) : null
NewTimer(t) == IF ~Falsy(t) THEN "pending" ELSE "none"
\* a transport that prefers its own signal, controller?.signal || signal
EffectiveSignalPrefersTimeout(caller, ctl) ==
    IF ctl # "none" THEN "controller" ELSE IF caller # "none" THEN "caller" ELSE "none"
\* signal: signal || controller?.signal
EffectiveSignal(caller, ctl) ==
    IF caller # "none" THEN "caller" ELSE IF ctl # "none" THEN "controller" ELSE "none"
\* a transport without the finally block
ClearTimeoutForgotten(t) == t
\* finally { if (timeoutId) clearTimeout(timeoutId) }
ClearTimeout(t) == IF t = "pending" THEN "cleared" ELSE t

IsAborted(which, caller, ctl) ==
    \/ which = "caller" /\ caller = "aborted"
    \/ which = "controller" /\ ctl = "aborted"

\* fetch(request): a request whose signal is already aborted is rejected
\* without any network activity; otherwise the network call starts.
Fetch(sig, caller, ctl) == IF IsAborted(sig, caller, ctl) THEN Failed("AbortError") ELSE AwaitPending

\* request leaves through its finally block
Exit(o) ==
    /\ hpc' = "done"
    /\ outcome' = o
    /\ timer' = ClearTimeout(timer)

\* The pieces of the path templates: text and {placeholders}
PathPieces(path) ==
    CASE path = "info/markets" -> <<"info/markets">>
      [] path = "info/markets/{market}/stats" -> <<"info/markets/", "{market}", "/stats">>
      [] path = "info/markets/{market}/orderbook" -> <<"info/markets/", "{market}", "/orderbook">>
      [] path = "info/markets/{market}/trades" -> <<"info/markets/", "{market}", "/trades">>
      [] path = "info/candles/{market}/{candleType}" ->
            <<"info/candles/", "{market}", "/", "{candleType}">>
      [] path = "info/{market}/funding" -> <<"info/", "{market}", "/funding">>
      [] path = "info/{market}/open-interests" -> <<"info/", "{market}", "/open-interests">>
      [] path = "info/{market}/vs/{market}" -> <<"info/", "{market}", "/vs/", "{market}">>

\* processedPath.replace(`{${key}}`, String(value)): the first occurrence
RECURSIVE ReplaceFirst(_, _, _)
ReplaceFirst(pieces, placeholder, text) ==
    IF pieces = <<>> THEN <<>>
    ELSE IF Head(pieces) = placeholder THEN text \o Tail(pieces)
    ELSE <<Head(pieces)>> \o ReplaceFirst(Tail(pieces), placeholder, text)

\* for (const [key, value] of Object.entries(pathParams)) ...
RECURSIVE ApplyPathParams(_, _, _)
ApplyPathParams(pieces, fields, keys) ==
    IF keys = <<>> THEN pieces
    ELSE ApplyPathParams(ReplaceFirst(pieces, "{" \o Head(keys) \o "}",
                                      TemplateText(fields[Head(keys)])),
                         fields, Tail(keys))

ProcessedPath(path, pathParams) ==
    IF Falsy(pathParams) THEN PathPieces(path)
    ELSE ApplyPathParams(PathPieces(path), pathParams.fields, SetToSeq(DOMAIN pathParams.fields))

\* a transport that sets every parameter, arrays included, as one value
SearchParamsSetOnly(params) ==
    IF Falsy(params) THEN {}
    ELSE {<<k, 1, TemplateText(params.fields[k])>> : k \in DOMAIN params.fields}

\* url.searchParams: one entry per parameter, one per item of an array
\* parameter, each with the text of its value
SearchParams(params) ==
    IF Falsy(params) THEN {}
    ELSE UNION {IF params.fields[k].type = "array"
                THEN {<<k, n, TemplateText(params.fields[k].items[n])>> :
                         n \in DOMAIN params.fields[k].items}
                ELSE {<<k, 1, TemplateText(params.fields[k])>>} : k \in DOMAIN params.fields}

\* a transport that always talks to mainnet
BaseUrlMainnet(testnet, srv) == srv.mainnet
\* const baseUrl = this.isTestnet ? this.server.testnet.api : this.server.mainnet.api
BaseUrl(testnet, srv) == IF ~Falsy(testnet) THEN srv.testnet ELSE srv.mainnet

\* new URL(`/api/v1/${processedPath}`, baseUrl), with the query parameters
BuildUrl(r, testnet, srv) ==
    [origin |-> BaseUrl(testnet, srv),
     path |-> <<"/api/v1/">> \o ProcessedPath(r.path, r.pathParams),
     query |-> SearchParams(r.params)]

\* The requests made of the transport on its own
HttpRequests ==
    {Request("info/markets", Obj([market |-> Arr(<<Str("BTC-USD"), Str("ETH-USD")>>)]),
             Undefined, Undefined),
     Request("info/candles/{market}/{candleType}",
             Obj([interval |-> Str("1m"), limit |-> Num(10)]),
             Obj([market |-> Str("BTC-USD"), candleType |-> Str("trades")]), Undefined)}

\* request(method, path, params, pathParams, signal), up to its first await
Send(r) ==
    /\ hpc = "idle"
    /\ url' = BuildUrl(r, isTestnet, server)
    /\ signalAtCall' = callerSignal
    /\ controller' = NewController(timeout)
    /\ timer' = NewTimer(timeout)
    /\ requestSignal' = EffectiveSignal(callerSignal, controller')
    /\ hpc' = "onRequest"
    /\ awaited' = IF hasOnRequest THEN AwaitPending ELSE Fulfilled("void")
    /\ UNCHANGED <<optServer, isTestnet, server, calls, sent, parsed>>
    /\ UNCHANGED <<optTimeout, timeout, hasOnRequest, hasOnResponse, callerSignal, finalSignal,
                   netCalls, response, outcome, abortedDuring, timedOutDuring>>
    /\ UNCHANGED clientVars

request == \E r \in HttpRequests : Send(r)

\* The abort steps of a signal, as fetch and the response body follow them: a
\* pending fetch rejects, a body being read fails, a body not yet read is
\* errored.
AbortSteps(which) ==
    /\ awaited' =
         IF /\ awaited.kind = "pending"
            /\ finalSignal = which
            /\ hpc = "fetch" \/ (hpc \in {"text", "json"} /\ ~response.replaced)
         THEN Failed("AbortError")
         ELSE awaited
    /\ response' =
         IF hpc = "onResponse" /\ finalSignal = which
         THEN [response EXCEPT !.bodyErrored = TRUE]
         ELSE response

\* The caller aborts its signal while the call is pending
Abort ==
    /\ hpc \notin {"idle", "done"}
    /\ awaited.kind = "pending" \/ hpc = "onRequest"
    /\ callerSignal = "live"
    /\ callerSignal' = "aborted"
    /\ abortedDuring' = hpc
    /\ AbortSteps("caller")
    /\ UNCHANGED <<optServer, isTestnet, server, url, calls, sent, parsed>>
    /\ UNCHANGED <<optTimeout, timeout, hasOnRequest, hasOnResponse, hpc, signalAtCall,
                   controller, timer, requestSignal, finalSignal, netCalls, outcome,
                   timedOutDuring>>
    /\ UNCHANGED clientVars

\* setTimeout(() => controller?.abort(), this.timeout): the duration elapses
TimerFires ==
    /\ timer = "pending"
    /\ awaited.kind = "pending"
    /\ timer' = "fired"
    /\ controller' = "aborted"
    /\ timedOutDuring' = hpc
    /\ AbortSteps("controller")
    /\ UNCHANGED <<optServer, isTestnet, server, url, calls, sent, parsed>>
    /\ UNCHANGED <<optTimeout, timeout, hasOnRequest, hasOnResponse, hpc, callerSignal,
                   signalAtCall, requestSignal, finalSignal, netCalls, outcome,
                   abortedDuring>>
    /\ UNCHANGED clientVars

\* The pre-send hook returns nothing, a replacement request that follows the
\* original's signal, a replacement request that does not, or throws.
OnRequestSettles ==
    /\ hpc = "onRequest" /\ awaited.kind = "pending"
    /\ \E r \in {"void", "replaceKeep", "replaceDrop", "throws"} :
          awaited' = IF r = "throws" THEN Failed("Error") ELSE Fulfilled(r)
    /\ UNCHANGED <<optServer, isTestnet, server, url, calls, sent, parsed>>
    /\ UNCHANGED <<optTimeout, timeout, hasOnRequest, hasOnResponse, hpc, callerSignal,
                   signalAtCall, controller, timer, requestSignal, finalSignal, netCalls,
                   response, outcome, abortedDuring, timedOutDuring>>
    /\ UNCHANGED clientVars

\* a transport that sends the request it built, whatever the hook returns
FinalRequestOriginal(hookResult) == "original"
\* const finalRequest = modifiedRequest || request
FinalRequest(hookResult) ==
    IF hookResult \in {"replaceKeep", "replaceDrop"} THEN "replacement" ELSE "original"
\* the signal finalRequest carries
FinalRequestSignal(hookResult, original) == IF hookResult = "replaceDrop" THEN "none" ELSE original

\* after await this.onRequest?.(request): fetch(finalRequest)
AfterOnRequest ==
    /\ hpc = "onRequest" /\ awaited.kind # "pending"
    /\ IF awaited.kind = "rejected"
       THEN /\ Exit(Rejected(ErrorNamed(awaited.what)))
            /\ UNCHANGED <<awaited, finalSignal, netCalls, sent>>
       ELSE /\ sent' = FinalRequest(awaited.what)
            /\ finalSignal' = FinalRequestSignal(awaited.what, requestSignal)
            /\ awaited' = Fetch(finalSignal', callerSignal, controller)
            /\ netCalls' = IF awaited'.kind = "pending" THEN netCalls + 1 ELSE netCalls
            /\ hpc' = "fetch"
            /\ UNCHANGED <<timer, outcome>>
    /\ UNCHANGED <<optServer, isTestnet, server, url, calls, parsed>>
    /\ UNCHANGED <<optTimeout, timeout, hasOnRequest, hasOnResponse, callerSignal, signalAtCall,
                   controller, requestSignal, response, abortedDuring, timedOutDuring>>
    /\ UNCHANGED clientVars

\* The server answers: the response's status is 2xx or not, its content type
\* contains application/json or not.
NetworkResponds ==
    /\ hpc = "fetch" /\ awaited.kind = "pending"
    /\ \E status \in Statuses, contentType \in ContentTypes, body \in Bodies :
          response' = Response(status, contentType, body, FALSE)
    /\ awaited' = Fulfilled("response")
    /\ UNCHANGED <<optServer, isTestnet, server, url, calls, sent, parsed>>
    /\ UNCHANGED <<optTimeout, timeout, hasOnRequest, hasOnResponse, hpc, callerSignal,
                   signalAtCall, controller, timer, requestSignal, finalSignal, netCalls,
                   outcome, abortedDuring, timedOutDuring>>
    /\ UNCHANGED clientVars

NetworkFails ==
    /\ hpc = "fetch" /\ awaited.kind = "pending"
    /\ awaited' = Failed("TypeError")
    /\ UNCHANGED <<optServer, isTestnet, server, url, calls, sent, parsed>>
    /\ UNCHANGED <<optTimeout, timeout, hasOnRequest, hasOnResponse, hpc, callerSignal,
                   signalAtCall, controller, timer, requestSignal, finalSignal, netCalls,
                   response, outcome, abortedDuring, timedOutDuring>>
    /\ UNCHANGED clientVars

\* a transport that fetches once more when the network call fails
AfterFetchRetries ==
    /\ hpc = "fetch" /\ awaited.kind # "pending"
    /\ IF awaited.kind = "rejected"
       THEN IF netCalls < 2
            THEN /\ awaited' = AwaitPending
                 /\ netCalls' = netCalls + 1
                 /\ UNCHANGED <<hpc, timer, outcome>>
            ELSE /\ Exit(Rejected(ErrorNamed(awaited.what)))
                 /\ UNCHANGED <<awaited, netCalls>>
       ELSE /\ hpc' = "onResponse"
            /\ awaited' = IF hasOnResponse THEN AwaitPending ELSE Fulfilled("void")
            /\ UNCHANGED <<timer, outcome, netCalls>>
    /\ UNCHANGED <<optServer, isTestnet, server, url, calls, sent, parsed>>
    /\ UNCHANGED <<optTimeout, timeout, hasOnRequest, hasOnResponse, callerSignal, signalAtCall,
                   controller, requestSignal, finalSignal, response, abortedDuring,
                   timedOutDuring>>
    /\ UNCHANGED clientVars

\* after await fetch(finalRequest): this.onResponse?.(response)
AfterFetch ==
    /\ hpc = "fetch" /\ awaited.kind # "pending"
    /\ IF awaited.kind = "rejected"
       THEN /\ Exit(Rejected(ErrorNamed(awaited.what)))
            /\ UNCHANGED awaited
       ELSE /\ hpc' = "onResponse"
            /\ awaited' = IF hasOnResponse THEN AwaitPending ELSE Fulfilled("void")
            /\ UNCHANGED <<timer, outcome>>
    /\ UNCHANGED <<optServer, isTestnet, server, url, calls, sent, parsed>>
    /\ UNCHANGED <<optTimeout, timeout, hasOnRequest, hasOnResponse, callerSignal, signalAtCall,
                   controller, requestSignal, finalSignal, netCalls, response, abortedDuring,
                   timedOutDuring>>
    /\ UNCHANGED clientVars

\* The post-receive hook returns nothing, a replacement response, or throws.
OnResponseSettles ==
    /\ hpc = "onResponse" /\ awaited.kind = "pending"
    /\ \/ \E r \in {"void", "throws"} :
             awaited' = IF r = "throws" THEN Failed("Error") ELSE Fulfilled(r)
       \/ \E status \in Statuses, contentType \in ContentTypes, body \in ReplacementBodies :
             awaited' = Awaiting("fulfilled", "replace",
                                 Response(status, contentType, body, TRUE), Undefined)
    /\ UNCHANGED <<optServer, isTestnet, server, url, calls, sent, parsed>>
    /\ UNCHANGED <<optTimeout, timeout, hasOnRequest, hasOnResponse, hpc, callerSignal,
                   signalAtCall, controller, timer, requestSignal, finalSignal, netCalls,
                   response, outcome, abortedDuring, timedOutDuring>>
    /\ UNCHANGED clientVars

\* reading the body of a response: an errored body fails at once
ReadBody(resp) == IF resp.bodyErrored THEN Failed("AbortError") ELSE AwaitPending

\* after await this.onResponse?.(response): classification of finalResponse
AfterOnResponse ==
    /\ hpc = "onResponse" /\ awaited.kind # "pending"
    /\ IF awaited.kind = "rejected"
       THEN /\ Exit(Rejected(ErrorNamed(awaited.what)))
            /\ UNCHANGED <<awaited, response>>
       ELSE LET finalResponse == IF awaited.what = "replace" THEN awaited.resp ELSE response
            IN /\ response' = finalResponse
               /\ IF ~Ok(finalResponse)
                  THEN /\ hpc' = "text"
                       /\ awaited' = ReadBody(finalResponse)
                       /\ UNCHANGED <<timer, outcome>>
                  ELSE IF Falsy(IncludesJson(finalResponse.contentType))
                  THEN /\ Exit(Rejected(HttpRequestError(finalResponse,
                                  StrC(<<"Expected JSON response, got ">>
                                       \o TemplateText(finalResponse.contentType)))))
                       /\ UNCHANGED awaited
                  ELSE \* return finalResponse.json(): the finally block runs now
                       /\ hpc' = "json"
                       /\ awaited' = ReadBody(finalResponse)
                       /\ timer' = ClearTimeout(timer)
                       /\ UNCHANGED outcome
    /\ UNCHANGED <<optServer, isTestnet, server, url, calls, sent, parsed>>
    /\ UNCHANGED <<optTimeout, timeout, hasOnRequest, hasOnResponse, callerSignal, signalAtCall,
                   controller, requestSignal, finalSignal, netCalls, abortedDuring,
                   timedOutDuring>>
    /\ UNCHANGED clientVars

\* The body arrives and is read as text or parsed as JSON (a body that is
\* not JSON does not parse), or the connection fails while it is read
BodyRead ==
    /\ hpc \in {"text", "json"} /\ awaited.kind = "pending"
    /\ \/ awaited' = Failed("TypeError")
       \/ awaited' = IF hpc = "text"
                     THEN Awaiting("fulfilled", "body", NoResponse, BodyText(response.body))
                     ELSE IF response.body.type = "text" THEN Failed("SyntaxError")
                     ELSE Awaiting("fulfilled", "body", NoResponse, response.body)
    /\ UNCHANGED <<optServer, isTestnet, server, url, calls, sent, parsed>>
    /\ UNCHANGED <<optTimeout, timeout, hasOnRequest, hasOnResponse, hpc, callerSignal,
                   signalAtCall, controller, timer, requestSignal, finalSignal, netCalls,
                   response, outcome, abortedDuring, timedOutDuring>>
    /\ UNCHANGED clientVars

\* a transport whose catch block is missing: the failure of text() is thrown
AfterTextPropagates ==
    /\ hpc = "text" /\ awaited.kind # "pending"
    /\ Exit(IF awaited.kind = "fulfilled"
            THEN Rejected(HttpRequestError(response, awaited.value))
            ELSE Rejected(ErrorNamed(awaited.what)))
    /\ UNCHANGED <<optServer, isTestnet, server, url, calls, sent, parsed>>
    /\ UNCHANGED <<optTimeout, timeout, hasOnRequest, hasOnResponse, awaited, callerSignal,
                   signalAtCall, controller, requestSignal, finalSignal, netCalls, response,
                   abortedDuring, timedOutDuring>>
    /\ UNCHANGED clientVars

\* after await finalResponse.text(), whose failure is swallowed:
\* throw new HttpRequestError(finalResponse, responseBody)
AfterText ==
    /\ hpc = "text" /\ awaited.kind # "pending"
    /\ Exit(Rejected(HttpRequestError(response, IF awaited.kind = "fulfilled"
                                                THEN awaited.value ELSE Undefined)))
    /\ UNCHANGED <<optServer, isTestnet, server, url, calls, sent, parsed>>
    /\ UNCHANGED <<optTimeout, timeout, hasOnRequest, hasOnResponse, awaited, callerSignal,
                   signalAtCall, controller, requestSignal, finalSignal, netCalls, response,
                   abortedDuring, timedOutDuring>>
    /\ UNCHANGED clientVars

\* the promise returned by finalResponse.json() settles the call
AfterJson ==
    /\ hpc = "json" /\ awaited.kind # "pending"
    /\ hpc' = "done"
    /\ outcome' = IF awaited.kind = "fulfilled" THEN Resolved(awaited.value)
                  ELSE Rejected(ErrorNamed(awaited.what))
    /\ UNCHANGED <<optServer, isTestnet, server, url, calls, sent, parsed>>
    /\ UNCHANGED <<optTimeout, timeout, hasOnRequest, hasOnResponse, awaited, callerSignal,
                   signalAtCall, controller, timer, requestSignal, finalSignal, netCalls,
                   response, abortedDuring, timedOutDuring>>
    /\ UNCHANGED clientVars

(***************************************************************************)
(* Concurrent calls of HttpTransport.request on one instance.  The steps   *)
(* are those of request above, taken by call i on its own locals; the      *)
(* instance's fields (timeout, hooks, server) are read, never written.     *)
(***************************************************************************)
ConcurrentResponses ==
    {Response(200, StrC(<<"application/json", "; charset=utf-8">>),
              Obj([status |-> Str("OK"), data |-> Arr(<<>>)]), FALSE),
     Response(404, StrC(<<"text/html">>), TextBody(<<"<html>">>), FALSE)}

\* the locals of a call that leaves through the finally block
CallExit(c, o) == [c EXCEPT !.hpc = "done", !.outcome = o, !.timer = ClearTimeout(c.timer)]

\* the abort steps of one of the call's two signals
CallAbortSteps(c, which) ==
    [c EXCEPT
       !.awaited = IF /\ c.awaited.kind = "pending"
                      /\ c.finalSignal = which
                      /\ c.hpc = "fetch" \/ (c.hpc \in {"text", "json"} /\ ~c.response.replaced)
                   THEN Failed("AbortError")
                   ELSE c.awaited,
       !.response = IF c.hpc = "onResponse" /\ c.finalSignal = which
                    THEN [c.response EXCEPT !.bodyErrored = TRUE]
                    ELSE c.response]

\* every live controller of the instance aborted at once, as if the
\* controller were a field of the transport
AbortEveryController(cs, i) ==
    [j \in DOMAIN cs |->
        IF cs[j].controller = "live"
        THEN CallAbortSteps([cs[j] EXCEPT !.controller = "aborted",
                                          !.timer = IF j = i THEN "fired" ELSE cs[j].timer,
                                          !.timedOutDuring = IF j = i THEN cs[j].hpc
                                                             ELSE cs[j].timedOutDuring],
                            "controller")
        ELSE cs[j]]

\* () => controller?.abort() of call i: its own controller
AbortOwnController(cs, i) ==
    [cs EXCEPT ![i] = CallAbortSteps([cs[i] EXCEPT !.controller = "aborted", !.timer = "fired",
                                                   !.timedOutDuring = cs[i].hpc],
                                     "controller")]

\* a step of the concurrent calls touches nothing else
CallsOnly ==
    /\ UNCHANGED <<optServer, isTestnet, server, url, optTimeout, timeout, hasOnRequest,
                   hasOnResponse, hpc, awaited, callerSignal, signalAtCall, controller, timer,
                   requestSignal, finalSignal, netCalls, response, outcome, abortedDuring,
                   timedOutDuring, sent, parsed>>
    /\ UNCHANGED clientVars

\* call i goes on with the locals c
Step(i, c) == calls' = [calls EXCEPT ![i] = c] /\ CallsOnly

callRequest(i) ==
    /\ calls[i].hpc = "idle"
    /\ \E signal \in {"none", "live", "aborted"} :
          Step(i, [calls[i] EXCEPT
                     !.signal = signal,
                     !.signalAtCall = signal,
                     !.controller = NewController(timeout),
                     !.timer = NewTimer(timeout),
                     !.requestSignal = EffectiveSignal(signal, NewController(timeout)),
                     !.hpc = "onRequest",
                     !.awaited = IF hasOnRequest THEN AwaitPending ELSE Fulfilled("void")])

callAbort(i) ==
    /\ calls[i].hpc \notin {"idle", "done"}
    /\ calls[i].awaited.kind = "pending" \/ calls[i].hpc = "onRequest"
    /\ calls[i].signal = "live"
    /\ Step(i, CallAbortSteps([calls[i] EXCEPT !.signal = "aborted",
                                               !.abortedDuring = calls[i].hpc], "caller"))

callTimerFires(i) ==
    /\ calls[i].timer = "pending"
    /\ calls[i].awaited.kind = "pending"
    /\ calls' = AbortOwnController(calls, i)
    /\ CallsOnly

callAfterOnRequest(i) ==
    /\ calls[i].hpc = "onRequest" /\ calls[i].awaited.kind # "pending"
    /\ LET c == calls[i]
           final == FinalRequestSignal(c.awaited.what, c.requestSignal)
       IN Step(i, IF c.awaited.kind = "rejected"
                  THEN CallExit(c, Rejected(ErrorNamed(c.awaited.what)))
                  ELSE [c EXCEPT !.finalSignal = final,
                                 !.awaited = Fetch(final, c.signal, c.controller),
                                 !.hpc = "fetch"])

callNetworkResponds(i) ==
    /\ calls[i].hpc = "fetch" /\ calls[i].awaited.kind = "pending"
    /\ \E r \in ConcurrentResponses :
          Step(i, [calls[i] EXCEPT !.response = r, !.awaited = Fulfilled("response")])

callNetworkFails(i) ==
    /\ calls[i].hpc = "fetch" /\ calls[i].awaited.kind = "pending"
    /\ Step(i, [calls[i] EXCEPT !.awaited = Failed("TypeError")])

callAfterFetch(i) ==
    /\ calls[i].hpc = "fetch" /\ calls[i].awaited.kind # "pending"
    /\ LET c == calls[i]
       IN Step(i, IF c.awaited.kind = "rejected"
                  THEN CallExit(c, Rejected(ErrorNamed(c.awaited.what)))
                  ELSE [c EXCEPT !.hpc = "onResponse",
                                 !.awaited = IF hasOnResponse THEN AwaitPending
                                             ELSE Fulfilled("void")])

callAfterOnResponse(i) ==
    /\ calls[i].hpc = "onResponse" /\ calls[i].awaited.kind # "pending"
    /\ LET c == calls[i]
           finalResponse == IF c.awaited.what = "replace" THEN c.awaited.resp ELSE c.response
       IN Step(i, IF c.awaited.kind = "rejected"
                  THEN CallExit(c, Rejected(ErrorNamed(c.awaited.what)))
                  ELSE IF ~Ok(finalResponse)
                  THEN [c EXCEPT !.response = finalResponse, !.hpc = "text",
                                 !.awaited = ReadBody(finalResponse)]
                  ELSE IF Falsy(IncludesJson(finalResponse.contentType))
                  THEN CallExit([c EXCEPT !.response = finalResponse],
                                Rejected(HttpRequestError(finalResponse,
                                    StrC(<<"Expected JSON response, got ">>
                                         \o TemplateText(finalResponse.contentType)))))
                  ELSE [c EXCEPT !.response = finalResponse, !.hpc = "json",
                                 !.awaited = ReadBody(finalResponse),
                                 !.timer = ClearTimeout(c.timer)])

callBodyRead(i) ==
    /\ calls[i].hpc \in {"text", "json"} /\ calls[i].awaited.kind = "pending"
    /\ LET c == calls[i]
       IN \/ Step(i, [c EXCEPT !.awaited = Failed("TypeError")])
          \/ Step(i, [c EXCEPT !.awaited =
                        IF c.hpc = "text"
                        THEN Awaiting("fulfilled", "body", NoResponse, BodyText(c.response.body))
                        ELSE IF c.response.body.type = "text" THEN Failed("SyntaxError")
                        ELSE Awaiting("fulfilled", "body", NoResponse, c.response.body)])

callAfterText(i) ==
    /\ calls[i].hpc = "text" /\ calls[i].awaited.kind # "pending"
    /\ LET c == calls[i]
       IN Step(i, CallExit(c, Rejected(HttpRequestError(c.response,
                                IF c.awaited.kind = "fulfilled" THEN c.awaited.value
                                ELSE Undefined))))

callAfterJson(i) ==
    /\ calls[i].hpc = "json" /\ calls[i].awaited.kind # "pending"
    /\ LET c == calls[i]
       IN Step(i, [c EXCEPT !.hpc = "done",
                            !.outcome = IF c.awaited.kind = "fulfilled"
                                        THEN Resolved(c.awaited.value)
                                        ELSE Rejected(ErrorNamed(c.awaited.what))])

(***************************************************************************)
(* Specifications                                                          *)
(***************************************************************************)
\* The arguments a caller can pass: a call is made on the idle client
WhenIdle(S) == IF pc = "idle" THEN S ELSE {}

\* InfoClient over any transport
Init == ClientInit /\ HttpQuiet

Next ==
    \/ \E f \in WhenIdle(MarketFilters), s \in Signals : markets(f, s)
    \/ \E m \in WhenIdle(Markets), s \in Signals : marketStats(m, s)
    \/ \E m \in WhenIdle(Markets), s \in Signals : marketOrderBook(m, s)
    \/ \E m \in WhenIdle(Markets), s \in Signals : marketTrades(m, s)
    \/ \E m \in WhenIdle(Markets), t \in CandleTypes, i \in CandleIntervals,
          l \in CandleLimits, e \in EndTimes, s \in Signals : candles(m, t, i, l, e, s)
    \/ \E m \in WhenIdle(Markets), st \in TimeValues, et \in TimeValues, c \in Cursors,
          l \in FundingLimits, s \in Signals : funding(m, st, et, c, l, s)
    \/ \E m \in WhenIdle(Markets), i \in OpenInterestIntervals, st \in TimeValues,
          et \in TimeValues, l \in OpenInterestLimits, s \in Signals :
             openInterest(m, i, st, et, l, s)
    \/ TransportResolves
    \/ TransportRejects
    \/ AfterAwait

Spec == Init /\ [][Next]_vars

\* HttpTransport.request
InitHttp == HttpInit /\ ClientInit

NextHttp ==
    \/ request
    \/ Abort
    \/ TimerFires
    \/ OnRequestSettles
    \/ AfterOnRequest
    \/ NetworkResponds
    \/ NetworkFails
    \/ AfterFetch
    \/ OnResponseSettles
    \/ AfterOnResponse
    \/ BodyRead
    \/ AfterText
    \/ AfterJson

SpecHttp == InitHttp /\ [][NextHttp]_vars

\* InfoClient over HttpTransport: the transport of the client is the HTTP
\* transport, whose request runs for the call the client is awaiting.
SystemMarkets == {<<>>, <<"A">>}

\* this.transport.request(...) enters HttpTransport.request
transportRequest ==
    /\ pc = "awaiting" /\ hpc = "idle"
    /\ (requests[Len(requests)].signal = Undefined) <=> (callerSignal = "none")
    /\ Send(requests[Len(requests)])

\* the promise of HttpTransport.request is the one the client awaits
transportSettles ==
    /\ pc = "awaiting" /\ hpc = "done" /\ transport.kind = "pending"
    /\ transport' = outcome
    /\ UNCHANGED <<pc, call, requests, result>>
    /\ UNCHANGED httpVars

InitSystem ==
    /\ ClientInit
    /\ HttpInit
    /\ optServer = Undefined
    /\ isTestnet = Bool(FALSE)
    /\ optTimeout \in {Undefined, Num(0)}

NextSystem ==
    \/ \E f \in WhenIdle(MarketFilters), s \in Signals : markets(f, s)
    \/ \E m \in WhenIdle(SystemMarkets), s \in Signals : marketStats(m, s)
    \/ \E m \in WhenIdle(SystemMarkets), s \in Signals : marketOrderBook(m, s)
    \/ \E m \in WhenIdle(SystemMarkets), s \in Signals : marketTrades(m, s)
    \/ \E m \in WhenIdle(SystemMarkets), s \in Signals :
          candles(m, "trades", "1m", Num(1), Undefined, s)
    \/ \E m \in WhenIdle(SystemMarkets), s \in Signals :
          funding(m, Num(1), Num(2), Undefined, Undefined, s)
    \/ \E m \in WhenIdle(SystemMarkets), s \in Signals :
          openInterest(m, "P1H", Num(1), Num(2), Undefined, s)
    \/ transportRequest
    \/ Abort
    \/ TimerFires
    \/ OnRequestSettles
    \/ AfterOnRequest
    \/ NetworkResponds
    \/ NetworkFails
    \/ AfterFetch
    \/ OnResponseSettles
    \/ AfterOnResponse
    \/ BodyRead
    \/ AfterText
    \/ AfterJson
    \/ transportSettles
    \/ AfterAwait

SpecSystem == InitSystem /\ [][NextSystem]_vars

\* A program calls transport.request itself, with templates and parameters of
\* its own: a placeholder that occurs twice, a placeholder without a path
\* parameter, a path parameter without a placeholder, a query value that
\* reads like a placeholder, numbers and booleans, an empty array.
UrlRequests ==
    HttpRequests \cup
    {Request("info/{market}/vs/{market}", Undefined, Obj([market |-> Str("BTC-USD")]), Undefined),
     Request("info/candles/{market}/{candleType}", Obj([interval |-> Str("{market}")]),
             Obj([market |-> Str("BTC-USD")]), Undefined),
     Request("info/markets/{market}/stats", Undefined, Undefined, Undefined),
     Request("info/markets", Obj([market |-> Arr(<<>>)]), Obj([market |-> Str("BTC-USD")]),
             Undefined),
     Request("info/{market}/funding", Obj([startTime |-> Num(1), verbose |-> Bool(TRUE)]),
             Obj([market |-> Num(7)]), Undefined)}
UrlServerOptions ==
    ServerOptions \cup
    {Obj([testnet |-> Obj([api |-> Str("https://staging.example")])]),
     Obj([mainnet |-> Obj([api |-> Str("https://proxy.example")]),
          testnet |-> Obj([api |-> Str("https://staging.example")])])}

directRequest(r) ==
    /\ pc = "idle"
    /\ call' = [NoCall EXCEPT !.method = "request"]
    /\ requests' = Append(requests, r)
    /\ pc' = "awaiting"
    /\ UNCHANGED <<transport, result>>
    /\ UNCHANGED httpVars

InitUrl ==
    /\ ClientInit
    /\ optServer \in UrlServerOptions
    /\ \E option \in IsTestnetOptions \cup {Bool(FALSE)} : isTestnet = ConstructIsTestnet(option)
    /\ server = ConstructServer(optServer)
    /\ url = NoUrl
    /\ optTimeout \in TimeoutOptions
    /\ timeout = ConstructTimeout(optTimeout)
    /\ hasOnRequest \in BOOLEAN
    /\ hasOnResponse \in BOOLEAN
    /\ hpc = "idle"
    /\ awaited = AwaitPending
    /\ callerSignal = "none"
    /\ signalAtCall = "none"
    /\ controller = "none"
    /\ timer = "none"
    /\ requestSignal = "none"
    /\ finalSignal = "none"
    /\ netCalls = 0
    /\ response = NoResponse
    /\ outcome = Pending
    /\ abortedDuring = ""
    /\ timedOutDuring = ""
    /\ calls = [i \in CallIds |-> NoCallState]
    /\ sent = "none"
    /\ parsed = NoParse

NextUrl ==
    \/ \E r \in WhenIdle(UrlRequests) : directRequest(r)
    \/ transportRequest

SpecUrl == InitUrl /\ [][NextUrl]_vars

\* One request of a transport with a timeout, without hooks, whose caller
\* gave no signal.  The program's own steps are taken whenever they can be:
\* the event loop runs the continuation of a settled await, and a pending
\* timer elapses.  Nothing obliges the server to answer or to finish a body.
InitLive ==
    /\ InitHttp
    /\ ~Falsy(timeout)
    /\ callerSignal = "none"
    /\ ~hasOnRequest /\ ~hasOnResponse

NextLive ==
    \/ request
    \/ TimerFires
    \/ AfterOnRequest
    \/ NetworkResponds
    \/ NetworkFails
    \/ AfterFetch
    \/ AfterOnResponse
    \/ BodyRead
    \/ AfterText
    \/ AfterJson

SpecLive ==
    /\ InitLive
    /\ [][NextLive]_vars
    /\ WF_vars(TimerFires)
    /\ WF_vars(AfterOnRequest)
    /\ WF_vars(AfterFetch)
    /\ WF_vars(AfterOnResponse)
    /\ WF_vars(AfterText)
    /\ WF_vars(AfterJson)

\* JSON values handed to the response schemas: envelopes with and without
\* each of their fields, with well-formed and ill-formed payloads, and with
\* fields no schema declares
StatusSamples == {Undefined, Str("OK"), Str("ERROR"), Str("WEIRD")}
EnvelopeDataSamples ==
    {Undefined, Null, Arr(<<>>), Arr(<<ValidFundingRate>>), Arr(<<FundingRateMistyped>>),
     Arr(<<Obj([m |-> Str("BTC-USD"), T |-> Num(1), f |-> Str("0.0001"), extra |-> Str("x")])>>),
     ValidOrderBook,
     Obj([market |-> Str("BTC-USD"), bid |-> Arr(<<>>)]),
     Obj([market |-> Str("BTC-USD"), ask |-> Arr(<<>>),
          bid |-> Arr(<<Obj([qty |-> Str("1"), price |-> Str("2"), extra |-> Str("x")])>>)])}
EnvelopeErrorSamples ==
    {Undefined, Str("oops"),
     Obj([code |-> Str("NOT_FOUND"), message |-> Str("Market not found")]),
     Obj([code |-> Str("MarketNotFound"), message |-> Str("Market not found")]),
     Obj([code |-> Str("TEAPOT"), message |-> Str("Market not found")]),
     Obj([code |-> Str("NOT_FOUND")]),
     Obj([code |-> Str("NOT_FOUND"), message |-> Str("Market not found"), extra |-> Str("x")])}
EnvelopePaginationSamples ==
    {Undefined, Obj([cursor |-> Num(5), count |-> Num(1)]),
     Obj([cursor |-> Halves(1), count |-> Num(1)])}
ExtraSamples == {Undefined, Str("x")}

\* the object with the fields that are present
Envelope(status, data, error, pagination, extra) ==
    Obj(Optional("status", status) @@ Optional("data", data) @@ Optional("error", error)
        @@ Optional("pagination", pagination) @@ Optional("extra", extra))

\* schema.safeParse(value) for one of the response schemas
safeParse(schema, v) ==
    /\ parsed = NoParse
    /\ parsed' = [schema |-> schema, input |-> v, result |-> SafeParse(schema, v)]
    /\ UNCHANGED <<optServer, isTestnet, server, url, calls, sent>>
    /\ UNCHANGED <<optTimeout, timeout, hasOnRequest, hasOnResponse, hpc, awaited, callerSignal,
                   signalAtCall, controller, timer, requestSignal, finalSignal, netCalls,
                   response, outcome, abortedDuring, timedOutDuring>>
    /\ UNCHANGED clientVars

NextSchema ==
    \E schema \in {"funding", "orderbook"}, status \in StatusSamples,
       data \in EnvelopeDataSamples, error \in EnvelopeErrorSamples,
       pagination \in EnvelopePaginationSamples, extra \in ExtraSamples :
          safeParse(schema, Envelope(status, data, error, pagination, extra))

SpecSchema == Init /\ [][NextSchema]_vars

\* N concurrent calls on one HttpTransport, constructed with or without a
\* timeout and with no hooks
InitConcurrent ==
    /\ ClientInit
    /\ HttpInit
    /\ optServer = Undefined
    /\ isTestnet = Bool(FALSE)
    /\ optTimeout \in {Undefined, Num(0)}
    /\ callerSignal = "none"
    /\ ~hasOnRequest /\ ~hasOnResponse

NextConcurrent ==
    \/ \E i \in CallIds : callRequest(i)
    \/ \E i \in CallIds : callAbort(i)
    \/ \E i \in CallIds : callTimerFires(i)
    \/ \E i \in CallIds : callAfterOnRequest(i)
    \/ \E i \in CallIds : callNetworkResponds(i)
    \/ \E i \in CallIds : callNetworkFails(i)
    \/ \E i \in CallIds : callAfterFetch(i)
    \/ \E i \in CallIds : callAfterOnResponse(i)
    \/ \E i \in CallIds : callBodyRead(i)
    \/ \E i \in CallIds : callAfterText(i)
    \/ \E i \in CallIds : callAfterJson(i)

SpecConcurrent == InitConcurrent /\ [][NextConcurrent]_vars

(***************************************************************************)
(* Properties                                                              *)
(***************************************************************************)
Called == pc # "idle"
RejectedInput ==
    /\ pc = "settled"
    /\ result.kind = "rejected"
    /\ result.error.name = "InvalidInputError"
    /\ requests = <<>>
TransportInvoked == Len(requests) = 1 /\ result.error.name # "InvalidInputError"

MalformedMarket(m) == m = <<>> \/ \E n \in DOMAIN m : m[n] \notin UpperCase \cup {"-"}
NotPositive(v) == v.nan \/ v.twice <= 0
PositiveInteger(v) == ~v.nan /\ v.twice > 0 /\ v.twice % 2 = 0
\* a number below lo or above hi
OutsideRange(v, lo, hi) == ~v.nan /\ (v.twice < 2 * lo \/ v.twice > 2 * hi)
InsideRange(v, lo, hi) == ~v.nan /\ v.twice >= 2 * lo /\ v.twice <= 2 * hi

\* C1: marketStats, marketTrades, candles, funding and openInterest reject a
\* market that is empty or does not match ^[A-Z-]+$ with InvalidInputError
\* and without invoking the transport; a matching market passes the market
\* check.
C1_MarketSymbolValidated ==
    (Called /\ call.method \in {"marketStats", "marketTrades", "candles", "funding",
                                "openInterest"})
    => IF MalformedMarket(call.market)
       THEN RejectedInput /\ result.error.message = <<"Invalid market input.">>
       ELSE result.error.message # <<"Invalid market input.">>

C1_Witness ==
    /\ call.method = "marketTrades" /\ call.market = <<"A", "1">>
    /\ RejectedInput

\* C2: funding rejects with InvalidInputError, without invoking the
\* transport, when startTime >= endTime, when startTime or endTime is not
\* positive, and when a supplied limit is outside [1, 10000]; with a valid
\* market, positive startTime < endTime and limit absent or inside
\* [1, 10000] the transport is invoked.
C2_FundingValidated ==
    (Called /\ call.method = "funding")
    => /\ ( \/ NotPositive(call.startTime) \/ NotPositive(call.endTime)
            \/ call.startTime.twice >= call.endTime.twice
            \/ (call.limit # Undefined /\ OutsideRange(call.limit, 1, FundingMaxLimit)) )
          => RejectedInput
       /\ ( /\ ~MalformedMarket(call.market)
            /\ ~NotPositive(call.startTime) /\ ~NotPositive(call.endTime)
            /\ call.startTime.twice < call.endTime.twice
            /\ (call.limit = Undefined \/ InsideRange(call.limit, 1, FundingMaxLimit)) )
          => TransportInvoked

\* C3: openInterest rejects with InvalidInputError, without invoking the
\* transport, when interval is not P1H or P1D, when startTime or endTime is
\* not positive, when startTime >= endTime, and when a supplied limit is
\* outside [1, 300]; otherwise, with a valid market, the transport is invoked.
C3_OpenInterestValidated ==
    (Called /\ call.method = "openInterest")
    => LET bad == \/ call.interval \notin {"P1H", "P1D"}
                  \/ NotPositive(call.startTime) \/ NotPositive(call.endTime)
                  \/ call.startTime.twice >= call.endTime.twice
                  \/ (call.limit # Undefined
                      /\ OutsideRange(call.limit, 1, OpenInterestMaxLimit))
       IN /\ bad => RejectedInput
          /\ (~bad /\ ~MalformedMarket(call.market)
              /\ (call.limit = Undefined \/ InsideRange(call.limit, 1, OpenInterestMaxLimit)))
             => TransportInvoked

C6_ResolvedValueMatchesSchema ==
    (pc = "settled" /\ result.kind = "resolved")
    => SuccessDataSchema(call.method,
                         IF call.method = "funding" THEN Get(result.value, "data")
                         ELSE result.value)


\* C7: a request called with an already aborted signal rejects and performs
\* no network call, whatever the transport's configuration and hooks.
C7_PreAbortedNeverReachesNetwork ==
    signalAtCall = "aborted"
    => /\ netCalls = 0
       /\ outcome.kind # "resolved"
       /\ hpc = "done" => outcome.kind = "rejected"

\* C8: once the caller's signal is aborted while the call is pending (during
\* the pre-send hook, the network call, the post-receive hook or the reading
\* of the body), the call does not resolve with a value.
C8_AbortedWhilePendingNeverResolves ==
    abortedDuring # "" => outcome.kind # "resolved"

\* C9: with a timeout configured, once the duration has elapsed while the
\* network call had produced no response, the call does not resolve with a
\* value, whether or not the caller supplied a signal.
C9_TimeoutCancelsTheCall ==
    timedOutDuring = "fetch" => outcome.kind # "resolved"

\* C10: a transport constructed with timeout: null starts no timer and is
\* never aborted by a timeout; one constructed without a timeout option uses
\* 10000 ms.
C10_NullDisablesTimeout ==
    /\ optTimeout = Null => (timer = "none" /\ controller = "none" /\ timedOutDuring = "")
    /\ optTimeout = Undefined => timeout = Num(DefaultTimeout)

\* C11 (as stated): marketOrderBook called with an empty market or one that
\* does not match ^[A-Z-]+$ is rejected without invoking the transport.
C11_OrderBookMarketValidated ==
    (Called /\ call.method = "marketOrderBook" /\ MalformedMarket(call.market))
    => RejectedInput

\* C11 (amended): marketStats, marketTrades, candles, funding and
\* openInterest reject a malformed market before the transport is invoked;
\* marketOrderBook checks nothing: with any market, malformed ones included,
\* it invokes the transport once with that market as the path parameter.
C11_MarketValidatedExceptOrderBook ==
    Called
    => /\ (call.method \in {"marketStats", "marketTrades", "candles", "funding", "openInterest"}
           /\ MalformedMarket(call.market))
          => RejectedInput
       /\ call.method = "marketOrderBook"
          => /\ Len(requests) = 1
             /\ requests[1].path = "info/markets/{market}/orderbook"
             /\ requests[1].pathParams = Obj([market |-> StrC(call.market)])
             /\ result.error.name # "InvalidInputError"

C11_Witness ==
    /\ call.method = "marketOrderBook" /\ call.market = <<"a">>
    /\ Len(requests) = 1 /\ pc = "awaiting"

C13_FundingPagination ==
    (pc = "settled" /\ call.method = "funding")
    => LET r == transport.value
           data == Get(r, "data")
           pagination == Get(r, "pagination")
       IN /\ (transport.kind = "resolved" /\ Get(r, "status") = Str("OK") /\ ZArray(data))
             => /\ result.kind = "resolved"
                /\ DOMAIN result.value.fields = {"data", "pagination"}
                /\ Get(result.value, "data") = data
                /\ Get(result.value, "pagination") =
                      IF pagination \notin {Undefined, Null} THEN pagination
                      ELSE Obj([cursor |-> Num(0), count |-> Num(Len(data.items))])
          /\ result.kind = "resolved"
             => Get(result.value, "pagination") \notin {Undefined, Null}

C13_Witness ==
    /\ pc = "settled" /\ call.method = "funding"
    /\ transport = Resolved(Obj([status |-> Str("OK"), data |-> Arr(<<ValidFundingRate>>)]))
    /\ result = Resolved(Obj([data |-> Arr(<<ValidFundingRate>>),
                              pagination |-> Obj([cursor |-> Num(0), count |-> Num(1)])]))

\* C14: in every result funding resolves with, pagination.cursor and
\* pagination.count are non-negative integers.
C14_PaginationNonNegativeIntegers ==
    (pc = "settled" /\ call.method = "funding" /\ result.kind = "resolved")
    => /\ ZIntMin0(Get(Get(result.value, "pagination"), "cursor"))
       /\ ZIntMin0(Get(Get(result.value, "pagination"), "count"))

\* C16: when transport.request rejects, the method rejects with the same
\* error, unchanged: it neither resolves nor rejects with another error.
C16_TransportRejectionPropagates ==
    (pc = "settled" /\ transport.kind = "rejected")
    => /\ result.kind = "rejected"
       /\ result.error = transport.error
       /\ result = transport

C16_Witness ==
    /\ pc = "settled" /\ call.method = "markets"
    /\ transport.kind = "rejected" /\ transport.error.name = "HttpRequestError"
    /\ result.kind = "rejected" /\ result.error.name = "HttpRequestError"

\* The query parameters a call must send: the required ones, and each
\* optional one that is present, with the arguments' values
QuerySent(params, required, optional, present) ==
    /\ params.type = "object"
    /\ DOMAIN params.fields = DOMAIN required \cup present
    /\ \A k \in DOMAIN required : params.fields[k] = required[k]
    /\ \A k \in present : params.fields[k] = optional[k]

NotUndefined(optional) == {k \in DOMAIN optional : optional[k] # Undefined}

\* the method, path template, path parameters and signal of each endpoint,
\* and the query parameters of the endpoints other than markets
EndpointCalled(q) ==
    /\ q.method = "GET"
    /\ q.signal = call.signal
    /\ CASE call.method = "markets" ->
              q.path = "info/markets" /\ q.pathParams = Undefined
         [] call.method = "marketStats" ->
              /\ q.path = "info/markets/{market}/stats" /\ q.params = Undefined
              /\ q.pathParams = Obj([market |-> StrC(call.market)])
         [] call.method = "marketOrderBook" ->
              /\ q.path = "info/markets/{market}/orderbook" /\ q.params = Undefined
              /\ q.pathParams = Obj([market |-> StrC(call.market)])
         [] call.method = "marketTrades" ->
              /\ q.path = "info/markets/{market}/trades" /\ q.params = Undefined
              /\ q.pathParams = Obj([market |-> StrC(call.market)])
         [] call.method = "candles" ->
              /\ q.path = "info/candles/{market}/{candleType}"
              /\ q.pathParams = Obj([market |-> StrC(call.market),
                                     candleType |-> Str(call.candleType)])
              /\ QuerySent(q.params, [interval |-> Str(call.interval), limit |-> call.limit],
                           [endTime |-> call.endTime],
                           NotUndefined([endTime |-> call.endTime]))
         [] call.method = "funding" ->
              /\ q.path = "info/{market}/funding"
              /\ q.pathParams = Obj([market |-> StrC(call.market)])
              /\ QuerySent(q.params, [startTime |-> call.startTime, endTime |-> call.endTime],
                           [cursor |-> call.cursor, limit |-> call.limit],
                           NotUndefined([cursor |-> call.cursor, limit |-> call.limit]))
         [] call.method = "openInterest" ->
              /\ q.path = "info/{market}/open-interests"
              /\ q.pathParams = Obj([market |-> StrC(call.market)])
              /\ QuerySent(q.params, [interval |-> Str(call.interval),
                                      startTime |-> call.startTime, endTime |-> call.endTime],
                           [limit |-> call.limit], NotUndefined([limit |-> call.limit]))

\* C18 (as stated): every method whose validation passes calls the transport
\* with GET, its path template and path parameters, and query parameters
\* holding the required arguments plus each optional argument if and only if
\* it is not undefined; markets included.
C18_OptionalSentIffSupplied ==
    Len(requests) = 1
    => /\ EndpointCalled(requests[1])
       /\ call.method = "markets"
          => QuerySent(requests[1].params, <<>>, [market |-> call.marketFilter],
                       NotUndefined([market |-> call.marketFilter]))

\* C18 (amended): the same, except that markets sends market if and only if
\* the argument is truthy: an empty string, like undefined, is not sent.
C18_RequestBuiltFromArguments ==
    /\ Len(requests) <= 1
    /\ (Called /\ result.error.name # "InvalidInputError") => Len(requests) = 1
    /\ Len(requests) = 1
       => /\ EndpointCalled(requests[1])
          /\ call.method = "markets"
             => QuerySent(requests[1].params, <<>>, [market |-> call.marketFilter],
                          {k \in {"market"} : call.marketFilter \notin {Undefined, Str("")}})

C18_Witness ==
    /\ call.method = "funding" /\ call.cursor = Num(0) /\ call.limit = Undefined
    /\ Len(requests) = 1
    /\ DOMAIN requests[1].params.fields = {"startTime", "endTime", "cursor"}
    /\ requests[1].params.fields["cursor"] = Num(0)

\* C19: a transport constructed with no server option sends mainnet requests
\* to https://api.extended.exchange and testnet requests to
\* https://api.testnet.extended.exchange.
C19_DefaultServers ==
    (optServer = Undefined /\ hpc # "idle")
    => url.origin = IF isTestnet = Bool(TRUE)
                    THEN Str("https://api.testnet.extended.exchange")
                    ELSE Str("https://api.extended.exchange")

\* the call has ended after classifying its final response
Classified == hpc = "done" /\ response # NoResponse /\ outcome.error.name # "Error"
Is2xx(resp) == resp.status \in 200..299
HasJsonContentType(resp) ==
    /\ resp.contentType # Null
    /\ \E n \in DOMAIN resp.contentType.chars : resp.contentType.chars[n] = "application/json"

\* C20: the final response is classified totally and exclusively.  A status
\* outside 200-299 raises HttpRequestError carrying the status and, when the
\* body could be read, the body text; a 2xx status whose content type is
\* absent or does not contain application/json raises HttpRequestError whose
\* message names the observed content type; a 2xx response with a JSON
\* content type yields the parsed body as it is, or the failure of reading
\* it; request resolves with a value for no other response.
C20_ResponseClassified ==
    Classified
    => /\ ~Is2xx(response)
          => /\ outcome.kind = "rejected"
             /\ outcome.error.name = "HttpRequestError"
             /\ outcome.error.status = response.status
             /\ Contains(outcome.error.message, <<ToString(response.status)>>)
             /\ IF awaited.kind = "fulfilled"
                THEN /\ outcome.error.responseBody = BodyText(response.body)
                     /\ Contains(outcome.error.message, BodyText(response.body).chars)
                ELSE outcome.error.responseBody = Undefined
       /\ (Is2xx(response) /\ ~HasJsonContentType(response))
          => /\ outcome.kind = "rejected"
             /\ outcome.error.name = "HttpRequestError"
             /\ outcome.error.status = response.status
             /\ Contains(outcome.error.message, TemplateText(response.contentType))
       /\ (Is2xx(response) /\ HasJsonContentType(response))
          => /\ outcome.kind = "resolved" => outcome.value = response.body
             /\ outcome.kind = "rejected"
                => outcome.error.name \in {"SyntaxError", "TypeError", "AbortError"}
             /\ (awaited.kind = "fulfilled" /\ awaited.what = "body")
                => outcome.kind = "resolved"
       /\ outcome.kind = "resolved" => (Is2xx(response) /\ HasJsonContentType(response))

C20_Witness ==
    /\ Classified
    /\ response.status = 299 /\ response.contentType = StrC(<<"text/html">>)
    /\ outcome.kind = "rejected" /\ outcome.error.name = "HttpRequestError"
    /\ outcome.error.message =
          <<"HTTP request failed: status ", "299", ", body \"",
            "Expected JSON response, got ", "text/html", "\"">>

\* C15: no operation retries.  In any execution of a method transport.request
\* is invoked at most once, exactly once when local validation passes and
\* never when it fails, and one HttpTransport.request performs at most one
\* network call, whatever the outcome.
C15_NoRetry ==
    /\ Len(requests) <= 1
    /\ netCalls <= 1
    /\ (Called /\ result.error.name # "InvalidInputError") => Len(requests) = 1
    /\ result.error.name = "InvalidInputError" => (requests = <<>> /\ netCalls = 0)
    /\ hpc # "idle" => Len(requests) = 1

C15_Witness ==
    /\ pc = "settled" /\ call.method = "funding"
    /\ Len(requests) = 1 /\ netCalls = 1
    /\ result.kind = "rejected" /\ result.error.name = "TypeError"

\* what happened to a call: its signal when it was made, the response and the
\* last thing it awaited, and the steps at which it was aborted or timed out
CallInputs(c) ==
    [signalAtCall |-> c.signalAtCall, response |-> c.response, awaited |-> c.awaited,
     abortedDuring |-> c.abortedDuring, timedOutDuring |-> c.timedOutDuring]

\* C17: concurrent calls on one transport do not interfere.  No step changes
\* the transport's configuration or the locals of more than one call; a
\* call's controller is aborted only by its own timer and its timer cleared
\* only by its own exit; a call ends with an abort only if its own signal or
\* controller is aborted; and the outcome of a finished call is a function
\* of what happened to that call alone, whatever the other calls did.
C17_CallsDoNotInterfere ==
    [][ /\ <<timeout, hasOnRequest, hasOnResponse, isTestnet, server>>'
             = <<timeout, hasOnRequest, hasOnResponse, isTestnet, server>>
        /\ \A i, j \in CallIds :
              (i # j /\ calls'[i] # calls[i]) => calls'[j] = calls[j]
        /\ \A i \in CallIds :
              /\ (calls[i].controller # "aborted" /\ calls'[i].controller = "aborted")
                 => (calls[i].timer = "pending" /\ calls'[i].timer = "fired")
              /\ (calls[i].timer = "pending" /\ calls'[i].timer = "cleared")
                 => (calls[i].hpc \notin {"json", "done"} /\ calls'[i].hpc \in {"json", "done"})
              /\ calls'[i].outcome.error.name = "AbortError"
                 => (calls'[i].signal = "aborted" \/ calls'[i].controller = "aborted")
        /\ \A i, j \in CallIds :
              (/\ calls'[i].hpc = "done" /\ calls'[j].hpc = "done"
               /\ CallInputs(calls'[i]) = CallInputs(calls'[j]))
              => calls'[i].outcome = calls'[j].outcome
      ]_vars

\* one call has timed out and rejected while the other, made in the same way
\* and answered, has resolved
C17_Witness ==
    /\ calls[1].hpc = "done" /\ calls[1].timedOutDuring = "fetch"
    /\ calls[1].outcome.kind = "rejected" /\ calls[1].outcome.error.name = "AbortError"
    /\ calls[2].hpc = "done" /\ calls[2].outcome.kind = "resolved"
    /\ calls[2].controller = "live" /\ calls[2].timer = "cleared"

\* C21: when the status of the final response is outside 200-299 and reading
\* its body as text fails (the connection breaks, the read is aborted, the
\* body is already errored), request still rejects with HttpRequestError for
\* that response, carrying the status and no body text; the failure of the
\* read never reaches the caller.
C21_BodyReadFailureSwallowed ==
    [][ (hpc = "text" /\ awaited.kind = "rejected" /\ hpc' # hpc)
        => /\ hpc' = "done"
           /\ ~Is2xx(response)
           /\ outcome'.kind = "rejected"
           /\ outcome'.error.name = "HttpRequestError"
           /\ outcome'.error.status = response.status
           /\ outcome'.error.responseBody = Undefined
           /\ outcome'.error.message = <<"HTTP request failed: status ", ToString(response.status)>>
      ]_vars

C21_Witness ==
    /\ hpc = "done" /\ response.status = 404
    /\ awaited.kind = "rejected" /\ awaited.what = "TypeError"
    /\ outcome.kind = "rejected" /\ outcome.error.name = "HttpRequestError"
    /\ outcome.error.message = <<"HTTP request failed: status ", "404">>

\* the path parameter that a piece of a template stands for, or nothing
PlaceholderKey(piece, pathParams) ==
    IF Falsy(pathParams) THEN {}
    ELSE {k \in DOMAIN pathParams.fields : piece = "{" \o k \o "}"}

\* a template with each of its pieces that is a placeholder of a path
\* parameter replaced by the text of the parameter
RECURSIVE EveryOccurrenceReplaced(_, _)
EveryOccurrenceReplaced(pieces, pathParams) ==
    IF pieces = <<>> THEN <<>>
    ELSE (IF PlaceholderKey(Head(pieces), pathParams) = {} THEN <<Head(pieces)>>
          ELSE TemplateText(pathParams.fields[CHOOSE k \in PlaceholderKey(Head(pieces), pathParams) : TRUE]))
         \o EveryOccurrenceReplaced(Tail(pieces), pathParams)

\* C22: path parameters are substituted for every occurrence of their
\* placeholder in the path template, a placeholder that occurs more than once
\* included; a placeholder without a path parameter stays as its literal
\* text, and request goes on to send the request.
C22_EveryPlaceholderSubstituted ==
    hpc # "idle"
    => /\ url.path = <<"/api/v1/">>
                     \o EveryOccurrenceReplaced(PathPieces(requests[1].path), requests[1].pathParams)
       /\ hpc = "onRequest" /\ outcome = Pending

\* C24: the URL of the request is the base host followed by /api/v1/ and the
\* substituted path; the base host is the testnet host exactly when isTestnet
\* is true and the mainnet host otherwise; an environment whose host is not
\* overridden keeps its default; the text of a query value is never
\* substituted, even when it reads like a placeholder.
C24_UrlOfTheRequest ==
    hpc # "idle"
    => LET r == requests[1]
           override(env) == Get(Get(optServer, env), "api")
       IN /\ isTestnet \in {Bool(TRUE), Bool(FALSE)}
          /\ isTestnet = Bool(TRUE)
             => url.origin = IF override("testnet") # Undefined THEN override("testnet")
                             ELSE Str(DefaultTestnetApi)
          /\ isTestnet = Bool(FALSE)
             => url.origin = IF override("mainnet") # Undefined THEN override("mainnet")
                             ELSE Str(DefaultMainnetApi)
          /\ Head(url.path) = "/api/v1/"
          /\ Tail(url.path) = ProcessedPath(r.path, r.pathParams)
          /\ \A pair \in url.query :
                /\ pair[1] \in DOMAIN r.params.fields
                /\ r.params.fields[pair[1]].type # "array"
                   => pair[3] = TemplateText(r.params.fields[pair[1]])
                /\ r.params.fields[pair[1]].type = "array"
                   => pair[3] = TemplateText(r.params.fields[pair[1]].items[pair[2]])

C24_Witness ==
    /\ hpc = "onRequest"
    /\ optServer = Obj([mainnet |-> Obj([api |-> Str("https://proxy.example")])])
    /\ isTestnet = Bool(TRUE)
    /\ url = [origin |-> Str("https://testnet.extended.exchange"),
              path |-> <<"/api/v1/", "info/candles/", "BTC-USD", "/", "{candleType}">>,
              query |-> {<<"interval", 1, <<"{market}">> >>}]

\* the pairs of a query whose key is k
PairsOf(query, k) == {pair \in query : pair[1] = k}

\* C23: in the query of the URL a scalar parameter yields exactly one
\* key=value pair, an array parameter one pair per element, in the order of
\* the array, and an empty array no pair at all; so markets({market: []})
\* sends no market parameter and markets({market: [a, b]}) sends market=a
\* and then market=b.
C23_QuerySerialized ==
    hpc # "idle"
    => LET params == IF requests[1].params = Undefined THEN <<>>
                     ELSE requests[1].params.fields
       IN /\ \A pair \in url.query : pair[1] \in DOMAIN params
          /\ \A k \in DOMAIN params :
                IF params[k].type = "array"
                THEN PairsOf(url.query, k)
                       = {<<k, n, StringText(params[k].items[n])>> : n \in 1..Len(params[k].items)}
                ELSE PairsOf(url.query, k) = {<<k, 1, TemplateText(params[k])>>}
          /\ (call.method = "markets" /\ call.marketFilter = Arr(<<>>)) => url.query = {}
          /\ (call.method = "markets"
              /\ call.marketFilter = Arr(<<Str("BTC-USD"), Str("ETH-USD")>>))
             => url.query = {<<"market", 1, <<"BTC-USD">> >>, <<"market", 2, <<"ETH-USD">> >>}

\* markets({market: []}) has been sent without a query and answered
C23_Witness ==
    /\ call.method = "markets" /\ call.marketFilter = Arr(<<>>)
    /\ requests[1].params = Obj([market |-> Arr(<<>>)])
    /\ url.path = <<"/api/v1/", "info/markets">> /\ url.query = {}
    /\ pc = "settled" /\ result.kind = "resolved"

\* C25: request creates a timer and a cancellation source of its own exactly
\* when the transport's timeout is set (a number other than 0); the signal
\* of the request it builds is the caller's whenever the caller gave one,
\* the timer-driven one only when the caller gave none, and none at all
\* when there is neither a timeout nor a caller's signal.
C25_TimerAndSignal ==
    hpc # "idle"
    => /\ (timer # "none") <=> (timeout.type = "number" /\ timeout # Num(0))
       /\ (controller # "none") <=> (timer # "none")
       /\ signalAtCall # "none" => requestSignal = "caller"
       /\ (signalAtCall = "none" /\ timer # "none") => requestSignal = "controller"
       /\ (signalAtCall = "none" /\ timer = "none") => requestSignal = "none"

\* a call with a timeout and a caller's signal: the timer runs, the request
\* carries the caller's signal
C25_Witness ==
    /\ hpc = "fetch" /\ timeout = Num(5000)
    /\ signalAtCall = "live" /\ controller = "live" /\ timer = "pending"
    /\ requestSignal = "caller"

\* C26: on every way out of request (the parsed body, HttpRequestError, an
\* error thrown by a hook, a network failure, an abort) the call's timer has
\* been cleared by the time the call has settled: no timer of the call is
\* pending afterwards, and no timer fires or aborts anything afterwards.
C26_TimerClearedOnExit ==
    [][ /\ hpc' = "done" => timer' \in {"none", "cleared", "fired"}
        /\ hpc = "done" => <<timer, controller, timedOutDuring>>' = <<timer, controller, timedOutDuring>>
        /\ (timer = "pending" /\ timer' = "cleared") => hpc' \in {"json", "done"}
      ]_vars

\* a call that a hook's error ended has left its timer cleared
C26_Witness ==
    /\ hpc = "done" /\ timer = "cleared" /\ controller = "live"
    /\ outcome.kind = "rejected" /\ outcome.error.name = "Error"
    /\ response # NoResponse

\* the steps of request in their order: a step is followed by the next one
\* or by the end of the call
StepOrder ==
    {<<"idle", "onRequest">>, <<"onRequest", "fetch">>, <<"fetch", "onResponse">>,
     <<"onResponse", "text">>, <<"onResponse", "json">>, <<"text", "done">>,
     <<"json", "done">>, <<"onRequest", "done">>, <<"fetch", "done">>,
     <<"onResponse", "done">>}

\* C27: within one request the pre-send hook, the network call, the
\* post-receive hook and the classification happen in that order, each at
\* most once; the request given to the network is the pre-send hook's
\* replacement when it returns one and the original otherwise; the response
\* classified is the post-receive hook's replacement when it returns one and
\* the original otherwise; a hook that throws makes request reject with the
\* hook's error, and none of the later steps happens.
C27_StepsInOrder ==
    [][ /\ hpc' # hpc => <<hpc, hpc'>> \in StepOrder
        /\ netCalls' \in {netCalls, netCalls + 1} /\ netCalls' <= 1
        /\ netCalls' # netCalls => (hpc = "onRequest" /\ hpc' = "fetch")
        /\ sent' # sent => (hpc = "onRequest" /\ hpc' = "fetch")
        /\ (hpc = "onRequest" /\ hpc' = "fetch")
           => sent' = IF awaited.kind = "fulfilled" /\ awaited.what \in {"replaceKeep", "replaceDrop"}
                      THEN "replacement" ELSE "original"
        /\ (hpc = "onResponse" /\ hpc' # hpc /\ awaited.kind = "fulfilled")
           => /\ response' = IF awaited.what = "replace" THEN awaited.resp ELSE response
              /\ hpc' = "text" <=> ~Is2xx(response')
              /\ hpc' = "json" <=> (Is2xx(response') /\ HasJsonContentType(response'))
        /\ (hpc \in {"onRequest", "onResponse"} /\ awaited.kind = "rejected" /\ hpc' # hpc)
           => /\ hpc' = "done"
              /\ outcome' = Rejected(HookError)
              /\ netCalls' = netCalls /\ sent' = sent /\ response' = response
        /\ hpc = "done" => (hpc' = "done" /\ outcome' = outcome)
      ]_vars

\* both hooks have replaced what they were given: the replacement request
\* went to the network, once, and the replacement response was classified
C27_Witness ==
    /\ hpc = "done" /\ hasOnRequest /\ hasOnResponse
    /\ sent = "replacement" /\ netCalls = 1
    /\ response.replaced /\ response.status = 200
    /\ outcome = Resolved(response.body)

\* the keys of an object, none for anything else
Keys(v) == IF v.type = "object" THEN DOMAIN v.fields ELSE {}
\* the endpoint's record schema and its error-code union
RecordMatches(schema, data) ==
    IF schema = "funding"
    THEN data.type = "array" /\ \A n \in DOMAIN data.items : FundingRateSchema(data.items[n])
    ELSE MarketOrderBookSchema(data)
ErrorCodes(schema) ==
    IF schema = "funding" THEN GeneralErrorCodes
    ELSE GeneralErrorCodes \cup MarketAssetAccountErrorCodes
\* the value has the fields the OK variant declares, well-formed
OkVariant(schema, v) ==
    /\ Get(v, "status") = Str("OK")
    /\ "data" \in Keys(v) /\ RecordMatches(schema, Get(v, "data"))
    /\ (schema = "funding" /\ "pagination" \in Keys(v)) => PaginationSchema(Get(v, "pagination"))
\* the value has the fields the ERROR variant declares, well-formed
ErrorVariant(schema, v) ==
    /\ Get(v, "status") = Str("ERROR")
    /\ {"code", "message"} \subseteq Keys(Get(v, "error"))
    /\ Get(Get(v, "error"), "code").type = "string"
    /\ Get(Get(v, "error"), "code").val \in ErrorCodes(schema)
    /\ Get(Get(v, "error"), "message").type = "string"
\* the value, its payload and its error object have no field but the declared ones
NothingUndeclared(schema, v) ==
    /\ Keys(v) \subseteq (IF Get(v, "status") = Str("OK")
                          THEN IF schema = "funding" THEN {"status", "data", "pagination"}
                               ELSE {"status", "data"}
                          ELSE {"status", "error"})
    /\ Keys(Get(v, "error")) \subseteq {"code", "message"}
    /\ \A item \in ZItems(Get(v, "data")) : Keys(item) \subseteq {"m", "T", "f"}
    /\ \A item \in ZItems(Get(Get(v, "data"), "bid")) : Keys(item) \subseteq {"qty", "price"}

\* C28 as the spec has it: a response schema accepts a value if and only if
\* the value is exactly one of the two variants, chosen by its status, so
\* that a value with a field missing or with an undeclared field is
\* rejected.
C28_ExactVariantOnly ==
    parsed # NoParse
    => (parsed.result.success
        <=> /\ OkVariant(parsed.schema, parsed.input) \/ ErrorVariant(parsed.schema, parsed.input)
            /\ NothingUndeclared(parsed.schema, parsed.input))

\* C28: a response schema accepts a value if and only if its status chooses
\* one of the two variants and the fields that variant declares are present
\* and well-formed: status OK with a payload matching the endpoint's record
\* schema, or status ERROR with an error object whose code is in the
\* endpoint's union of codes and whose message is a string.  A missing
\* required field rejects the value; fields no schema declares do not, and
\* are left out of the parsed result.  No value is accepted as both
\* variants, and a failure is a result value.
C28_EnvelopeValidated ==
    parsed # NoParse
    => LET v == parsed.input
           ok == parsed.result.success
       IN /\ ok <=> (OkVariant(parsed.schema, v) \/ ErrorVariant(parsed.schema, v))
          /\ ~(OkVariant(parsed.schema, v) /\ ErrorVariant(parsed.schema, v))
          /\ ("status" \notin Keys(v)) => ~ok
          /\ (Get(v, "status") = Str("OK") /\ "data" \notin Keys(v)) => ~ok
          /\ (Get(v, "status") = Str("ERROR")
              /\ ~({"code", "message"} \subseteq Keys(Get(v, "error")))) => ~ok
          /\ ok => /\ NothingUndeclared(parsed.schema, parsed.result.data)
                   /\ \A k \in Keys(parsed.result.data) : k \in Keys(v)
                   /\ Get(parsed.result.data, "status") = Get(v, "status")
          /\ ~ok => parsed.result = [success |-> FALSE, data |-> Undefined]

\* an OK envelope of the funding endpoint with an undeclared field beside
\* its declared ones and another inside its record is accepted, without them
C28_Witness ==
    /\ parsed.schema = "funding"
    /\ parsed.input =
          Obj([status |-> Str("OK"), extra |-> Str("x"),
               data |-> Arr(<<Obj([m |-> Str("BTC-USD"), T |-> Num(1), f |-> Str("0.0001"),
                                   extra |-> Str("x")])>>)])
    /\ parsed.result =
          [success |-> TRUE,
           data |-> Obj([status |-> Str("OK"), data |-> Arr(<<ValidFundingRate>>)])]

\* C29: cancellation stays effective when the pre-send hook replaces the
\* request: once the effective signal (the caller's, or the timeout's when
\* the caller gave none) is aborted while the network call for the
\* replacement request is pending, the network call is aborted and request
\* rejects.
C29_ReplacementStaysCancellable ==
    (/\ sent = "replacement"
     /\ IF signalAtCall = "none" THEN timedOutDuring = "fetch" ELSE abortedDuring = "fetch")
    => /\ hpc = "fetch" => awaited = Failed("AbortError")
       /\ hpc \notin {"onResponse", "text", "json"}
       /\ hpc = "done" => (outcome.kind = "rejected" /\ outcome.error.name = "AbortError")

\* C30: with a timeout set, no caller's signal and hooks that terminate,
\* every call of request eventually settles, also when the server never
\* answers and when it sends the headers of a response but never completes
\* its body.
C30_EveryCallSettles == (hpc # "idle") ~> (hpc = "done")

====
